---- MODULE Spec2Model ----
(***************************************************************************)
(* A model of the KNIME workflow viewer and its node-to-SQL translators.   *)
(*                                                                         *)
(* Text.  A JavaScript string is a sequence of tokens.  Data that the code *)
(* inspects character by character (column names, literal values, table    *)
(* names) is spelled one character per token; the fixed fragments of the   *)
(* code's template literals and the fixed identifiers it compares against  *)
(* are single tokens.  The terminator ";" is always a token of its own.    *)
(*                                                                         *)
(* Config trees.  xml-js in compact mode turns every XML element into an   *)
(* object with `_attributes`, and child elements `entry` / `config` that   *)
(* are absent, a single object, or an array.  An element is a record; its  *)
(* `entry` and `config` fields are sequences, the empty sequence standing  *)
(* for an absent property (the code normalises single objects to arrays).  *)
(***************************************************************************)
EXTENDS Integers, Sequences, FiniteSets, TLC

VARIABLES
    file,            \* the uploaded archive being processed (descriptor + settings documents)
    pending,         \* per path of the archive, the launched parses of it that have not completed
    nodeData,        \* React state: the node-record collection
    nextNodeMap,     \* React state: source id -> destination ids
    selectedNode,    \* React state: the record whose SQL is shown
    isModalVisible,  \* React state
    uploads,         \* number of uploads handled so far
    call,            \* the arguments of a translator call
    result           \* what the translator call returned

vars == <<file, pending, nodeData, nextNodeMap, selectedNode, isModalVisible,
          uploads, call, result>>

-----------------------------------------------------------------------------
(* JavaScript values: null, strings and booleans, in one record shape.     *)

JSNull == [t |-> "null", s |-> <<>>, b |-> FALSE]

JSStr(s) == [t |-> "str", s |-> s, b |-> FALSE]

JSBool(b) == [t |-> "bool", s |-> <<>>, b |-> b]

\* JavaScript truthiness of a value: null, "" and false are falsy.
Truthy(v) == \/ v.t = "str" /\ v.s # <<>>
             \/ v.t = "bool" /\ v.b

\* String.prototype.replace(/c/g, r): every token c of s replaced by the tokens r.
RECURSIVE ReplaceAll(_, _, _)
ReplaceAll(s, c, r) ==
    IF s = <<>> THEN <<>>
    ELSE (IF Head(s) = c THEN r ELSE <<Head(s)>>) \o ReplaceAll(Tail(s), c, r)

RECURSIVE Join(_, _)
Join(parts, sep) ==
    IF parts = <<>> THEN <<>>
    ELSE IF Len(parts) = 1 THEN parts[1]
    ELSE parts[1] \o sep \o Join(Tail(parts), sep)

Digits == {"0", "1", "2", "3", "4", "5", "6", "7", "8", "9"}

\* !isNaN(Number(s)) for a non-empty string s over the model's alphabet
\* (letters, digits, quotes, wildcards): exactly the digit strings.
IsNumericString(s) == s # <<>> /\ \A i \in 1..Len(s) : s[i] \in Digits

\* `"${name.replace(/"/g, '""')}"`
QuoteIdent(name) == <<"\"">> \o ReplaceAll(name, "\"", <<"\"", "\"">>) \o <<"\"">>

\* `'${value.replace(/'/g, "''")}'`
QuoteLiteral(value) == <<"'">> \o ReplaceAll(value, "'", <<"'", "'">>) \o <<"'">>

-----------------------------------------------------------------------------
(* Elements of a config tree.                                              *)

NoElement ==
    [nil |-> TRUE, attrs |-> FALSE, key |-> "", type |-> "", hasValue |-> FALSE,
     value |-> <<>>, entry |-> <<>>, config |-> <<>>]

\* <entry key=... type=... value=.../>
Entry(key, type, value) ==
    [nil |-> FALSE, attrs |-> TRUE, key |-> key, type |-> type, hasValue |-> TRUE,
     value |-> value, entry |-> <<>>, config |-> <<>>]

\* <entry key=... type=.../> without a value attribute
EntryNoValue(key, type) ==
    [nil |-> FALSE, attrs |-> TRUE, key |-> key, type |-> type, hasValue |-> FALSE,
     value |-> <<>>, entry |-> <<>>, config |-> <<>>]

\* an element without any attribute: xml-js emits no `_attributes` property
BareElement ==
    [nil |-> FALSE, attrs |-> FALSE, key |-> "", type |-> "", hasValue |-> FALSE,
     value |-> <<>>, entry |-> <<>>, config |-> <<>>]

\* <config key=...> entries... configs... </config>
Config(key, entries, configs) ==
    [nil |-> FALSE, attrs |-> TRUE, key |-> key, type |-> "", hasValue |-> FALSE,
     value |-> <<>>, entry |-> entries, config |-> configs]

\* Array.prototype.find with the translators' predicate
\* (e) => e._attributes && e._attributes.key === key; 0 when nothing matches.
FindIndex(elems, key) ==
    LET hits == {i \in 1..Len(elems) : elems[i].attrs /\ elems[i].key = key}
    IN  IF hits = {} THEN 0 ELSE CHOOSE i \in hits : \A j \in hits : i <= j

findConfigByKey(config, key) ==
    IF config = <<>> THEN NoElement
    ELSE LET i == FindIndex(config, key)
         IN  IF i = 0 THEN NoElement ELSE config[i]

\* the translators' getEntryValue: typed booleans are parsed, "" becomes null
getEntryValue(entryProp, key) ==
    IF entryProp = <<>> THEN JSNull
    ELSE LET i == FindIndex(entryProp, key)
         IN  IF i = 0 THEN JSNull
             ELSE IF entryProp[i].type = "xboolean"
                  THEN JSBool(entryProp[i].hasValue /\ entryProp[i].value = <<"true">>)
             ELSE IF entryProp[i].hasValue /\ entryProp[i].value # <<>>
                  THEN JSStr(entryProp[i].value)
             ELSE JSNull

-----------------------------------------------------------------------------
(* What a call returns: a text, or a raised TypeError.                     *)

Returned(text) == [threw |-> FALSE, text |-> text]

Thrown == [threw |-> TRUE, text |-> <<>>]

\* a value interpolated into a template literal
ToText(v) == IF v.t = "str" THEN v.s
             ELSE IF v.t = "bool" THEN (IF v.b THEN <<"true">> ELSE <<"false">>)
             ELSE <<"null">>

-----------------------------------------------------------------------------
(* Row Filter translator.                                                  *)

ROW_FILTER_FACTORY == <<"org.knime.base.node.preproc.filter.row3.RowFilterNodeFactory">>

mapKnimeOperatorToSQL(knimeOperator) ==
    CASE knimeOperator = <<"EQ">> -> <<"=">>
      [] knimeOperator = <<"NEQ">> -> <<"!=">>
      [] knimeOperator = <<"LT">> -> <<"<">>
      [] knimeOperator = <<"LE">> -> <<"<=">>
      [] knimeOperator = <<"GT">> -> <<">">>
      [] knimeOperator = <<"GE">> -> <<">=">>
      [] knimeOperator = <<"LIKE">> -> <<"LIKE">>
      [] knimeOperator = <<"REGEX">> -> <<"REGEXP">>
      [] knimeOperator = <<"IS_MISSING">> -> <<"IS NULL">>
      [] knimeOperator = <<"IS_NOT_MISSING">> -> <<"IS NOT NULL">>
      [] OTHER -> <<"=">>

\* a variant of translateKnimeWildcardToSQL that replaces the wild cards before
\* it escapes
translateWildcardsBeforeEscaping(knimePattern) ==
    IF knimePattern.t # "str" THEN <<>>
    ELSE LET replaced == ReplaceAll(ReplaceAll(knimePattern.s, "*", <<"%">>), "?", <<"_">>)
         IN  ReplaceAll(ReplaceAll(replaced, "%", <<"\\", "%">>), "_", <<"\\", "_">>)

\* the argument is a JavaScript value: a non-string yields ""
translateKnimeWildcardToSQL(knimePattern) ==
    IF knimePattern.t # "str" THEN <<>>
    ELSE LET escaped == ReplaceAll(ReplaceAll(knimePattern.s, "%", <<"\\", "%">>),
                                   "_", <<"\\", "_">>)
         IN  ReplaceAll(ReplaceAll(escaped, "*", <<"%">>), "?", <<"_">>)

\* a variant of ContainsStringCell that takes every cell class for a string class
ContainsStringCellAlways(s) == TRUE

\* cellClass?.includes("StringCell") on the class names of the model
ContainsStringCell(s) ==
    \E i \in 1..Len(s) : s[i] = "org.knime.core.data.def.StringCell"

Dropped == [kind |-> "drop", text |-> <<>>]

PredThrown == [kind |-> "throw", text |-> <<>>]

Condition(text) == [kind |-> "cond", text |-> text]

\* Lines 388-498: a predicate whose operator takes a value.
ValuePredicate(columnName, sqlOperator, valuesNode) ==
    LET singleValueConfig == findConfigByKey(valuesNode.config, "0")
        value == getEntryValue(singleValueConfig.entry, "value")
        typeIdentifierConfig == findConfigByKey(singleValueConfig.config, "typeIdentifier")
        isNull == getEntryValue(typeIdentifierConfig.entry, "is_null")
        cellClass == getEntryValue(typeIdentifierConfig.entry, "cell_class")
        quotedColumnName == QuoteIdent(columnName.s)
        isStringType == cellClass.t = "str" /\ ContainsStringCell(cellClass.s)
        isNumeric == IF value.t = "str" THEN IsNumericString(value.s) ELSE TRUE
        needsQuotes == isStringType \/ ~isNumeric
        sqlValue ==
            IF sqlOperator = <<"LIKE">>
            THEN QuoteLiteral(translateKnimeWildcardToSQL(value))
            ELSE IF sqlOperator = <<"REGEXP">> \/ needsQuotes
            THEN QuoteLiteral(value.s)
            ELSE ToText(value)
        caseSensitiveConfig == findConfigByKey(singleValueConfig.config, "stringCaseMatching")
        caseSensitive ==
            getEntryValue(caseSensitiveConfig.entry, "caseMatching") = JSStr(<<"CASESENSITIVE">>)
        lowered == /\ needsQuotes
                   /\ ~caseSensitive
                   /\ sqlOperator \in {<<"=">>, <<"!=">>, <<"LIKE">>, <<"REGEXP">>}
        condition ==
            IF lowered
            THEN <<"LOWER(">> \o quotedColumnName \o <<")", " ">> \o sqlOperator
                 \o <<" ", "LOWER(">> \o sqlValue \o <<")">>
            ELSE quotedColumnName \o <<" ">> \o sqlOperator \o <<" ">> \o sqlValue
        escapeNeeded ==
            /\ sqlOperator = <<"LIKE">>
            /\ translateKnimeWildcardToSQL(value)
                 # ReplaceAll(ReplaceAll(value.s, "*", <<"%">>), "?", <<"_">>)
    IN  IF singleValueConfig.nil \/ singleValueConfig.entry = <<>>
           \/ singleValueConfig.config = <<>>
        THEN Dropped
        ELSE IF isNull = JSBool(TRUE)
        THEN (IF columnName.t # "str" THEN PredThrown      \* columnName.replace
              ELSE Condition(quotedColumnName \o <<" ", "IS NULL">>))
        ELSE IF value.t = "null" THEN Dropped
        ELSE IF columnName.t # "str" THEN PredThrown       \* columnName.replace
        ELSE IF cellClass.t = "bool" THEN PredThrown       \* cellClass.includes
        ELSE IF value.t # "str"
                /\ (sqlOperator \in {<<"LIKE">>, <<"REGEXP">>} \/ needsQuotes)
        THEN PredThrown                                    \* value.replace
        ELSE Condition(condition \o (IF escapeNeeded THEN <<" ESCAPE '\\'">> ELSE <<>>))

\* Lines 348-499: the callback mapped over the predicate configs.
PredicateToCondition(predConfig) ==
    LET columnNode == findConfigByKey(predConfig.config, "column")
        operatorEntry == findConfigByKey(predConfig.entry, "operator")
        predicateValuesNode == findConfigByKey(predConfig.config, "predicateValues")
        columnName == getEntryValue(columnNode.entry, "selected")
        knimeOperator == IF operatorEntry.hasValue THEN operatorEntry.value ELSE <<>>
        valuesNode == findConfigByKey(predicateValuesNode.config, "values")
        sqlOperator == mapKnimeOperatorToSQL(knimeOperator)
    IN  IF predConfig.config = <<>> THEN Dropped
        ELSE IF columnNode.nil \/ operatorEntry.nil \/ predicateValuesNode.nil
                \/ predicateValuesNode.config = <<>>
        THEN Dropped
        ELSE IF ~Truthy(columnName) \/ knimeOperator = <<>> \/ valuesNode.nil
                \/ valuesNode.config = <<>>
        THEN Dropped
        ELSE IF sqlOperator \in {<<"IS NULL">>, <<"IS NOT NULL">>}
        THEN (IF columnName.t # "str" THEN PredThrown
              ELSE Condition(QuoteIdent(columnName.s) \o <<" ">> \o sqlOperator))
        ELSE ValuePredicate(columnName, sqlOperator, valuesNode)

\* filter((condition) => condition !== null), in list order
RECURSIVE SurvivingConditions(_)
SurvivingConditions(outcomes) ==
    IF outcomes = <<>> THEN <<>>
    ELSE (IF Head(outcomes).kind = "cond" THEN <<Head(outcomes).text>> ELSE <<>>)
         \o SurvivingConditions(Tail(outcomes))

\* a variant of ApplyOutputMode that wraps every mode other than MATCHING
ApplyOutputModeWrapsOthers(outputMode, combinedConditions) ==
    IF outputMode # JSStr(<<"MATCHING">>)
    THEN <<"NOT (">> \o combinedConditions \o <<")">>
    ELSE combinedConditions

\* Step 6: the combined conditions, negated for NON_MATCHING
ApplyOutputMode(outputMode, combinedConditions) ==
    IF outputMode = JSStr(<<"NON_MATCHING">>)
    THEN <<"NOT (">> \o combinedConditions \o <<")">>
    ELSE combinedConditions

\* nodeConfig is [defined, entry, config]; previousNodeName is a JavaScript value,
\* null standing for an argument that was not passed.
convertRowFilterNodeToSQL(nodeConfig, previousNodeName) ==
    LET factory == getEntryValue(nodeConfig.entry, "factory")
        modelNode == findConfigByKey(nodeConfig.config, "model")
        outputMode == getEntryValue(modelNode.entry, "outputMode")
        matchCriteria == getEntryValue(modelNode.entry, "matchCriteria")
        predicatesNode == findConfigByKey(modelNode.config, "predicates")
        predicateConfigs == predicatesNode.config
        outcomes == [i \in 1..Len(predicateConfigs) |->
                        PredicateToCondition(predicateConfigs[i])]
        conditions == SurvivingConditions(outcomes)
        combinedConditions == Join(conditions, <<" ">> \o ToText(matchCriteria) \o <<" ">>)
        whereClause == ApplyOutputMode(outputMode, combinedConditions)
        quotedPreviousNodeName == QuoteIdent(previousNodeName.s)
    IN  IF ~nodeConfig.defined THEN Thrown                 \* nodeConfig.entry
        ELSE IF factory # JSStr(ROW_FILTER_FACTORY)
        THEN Returned(<<"Error:", " Expected Row Filter node factory (">>
                      \o ROW_FILTER_FACTORY \o <<"), but got ">>
                      \o (IF Truthy(factory) THEN ToText(factory) ELSE <<"N/A">>) \o <<".">>)
        ELSE IF modelNode.nil \/ modelNode.config = <<>>
        THEN Returned(<<"Error:", " Model configuration not found.">>)
        ELSE IF ~Truthy(outputMode) \/ ~Truthy(matchCriteria) \/ predicatesNode.nil
                \/ predicatesNode.config = <<>>
        THEN Returned(<<"Error:", " Essential filtering parameters (outputMode, matchCriteria, predicates) not found.">>)
        ELSE IF \E i \in 1..Len(outcomes) : outcomes[i].kind = "throw" THEN Thrown
        ELSE IF previousNodeName.t # "str" THEN Thrown     \* previousNodeName.replace
        ELSE IF conditions = <<>>
        THEN Returned(<<"SELECT * FROM ">> \o quotedPreviousNodeName
                      \o <<";", " -- Warning: No valid filter conditions generated or applied">>)
        ELSE Returned(<<"SELECT * FROM ">> \o quotedPreviousNodeName \o <<" WHERE ">>
                      \o whereClause \o <<";">>)

-----------------------------------------------------------------------------
(* GroupBy translator.                                                     *)

GROUPBY_FACTORY == <<"org.knime.base.node.preproc.groupby.GroupByNodeFactory">>

\* the keys of an indexed list, "0", "1", ... and their numeric values
IndexKeys == <<"0", "1", "2", "3">>

IsIndexKey(key) == \E n \in 1..Len(IndexKeys) : IndexKeys[n] = key

\* the values of the entries of an indexed list, read in numeric key order;
\* an absent node gives the empty list
getArrayValuesFromConfig(node) ==
    LET at(n) == {i \in 1..Len(node.entry) :
                     node.entry[i].attrs /\ node.entry[i].key = IndexKeys[n]}
        present == {n \in 1..Len(IndexKeys) : at(n) # {}}
        first(n) == CHOOSE i \in at(n) : \A j \in at(n) : i <= j
        nth[k \in 0..Len(IndexKeys)] ==
            IF k = 0 THEN <<>>
            ELSE nth[k - 1] \o (IF k \in present THEN <<node.entry[first(k)].value>>
                                ELSE <<>>)
    IN  IF node.nil THEN <<>> ELSE nth[Len(IndexKeys)]

\* the template token that stands for the quoted column name
COL_PLACEHOLDER == "$$col$$"

\* <<>> is null
mapKnimeAggregationToSQL(knimeMethod) ==
    CASE knimeMethod = <<"S", "u", "m">> -> <<"SUM">>
      [] knimeMethod = <<"C", "o", "u", "n", "t">> -> <<"COUNT">>
      [] knimeMethod \in {<<"M", "e", "a", "n">>, <<"A", "v", "e", "r", "a", "g", "e">>} -> <<"AVG">>
      [] knimeMethod = <<"M", "i", "n", "i", "m", "u", "m">> -> <<"MIN">>
      [] knimeMethod = <<"M", "a", "x", "i", "m", "u", "m">> -> <<"MAX">>
      [] knimeMethod = <<"S", "t", "a", "n", "d", "a", "r", "d", "D", "e", "v", "i", "a", "t", "i", "o", "n">> -> <<"STDDEV_SAMP">>
      [] knimeMethod = <<"V", "a", "r", "i", "a", "n", "c", "e">> -> <<"VAR_SAMP">>
      [] knimeMethod = <<"M", "e", "d", "i", "a", "n">> -> <<>>
      [] knimeMethod \in {<<"C", "o", "n", "c", "a", "t", "e", "n", "a", "t", "e">>, <<"L", "i", "s", "t">>} -> <<"LISTAGG">>
      [] knimeMethod = <<"F", "i", "r", "s", "t">> -> <<"MIN">>
      [] knimeMethod = <<"L", "a", "s", "t">> -> <<"MAX">>
      [] knimeMethod = <<"U", "n", "i", "q", "u", "e", " ", "c", "o", "u", "n", "t">> -> <<"COUNT(DISTINCT ", COL_PLACEHOLDER, ")">>
      [] knimeMethod = <<"M", "i", "s", "s", "i", "n", "g", " ", "v", "a", "l", "u", "e", " ", "c", "o", "u", "n", "t">>
           -> <<"SUM(CASE WHEN ", COL_PLACEHOLDER, " IS NULL THEN 1 ELSE 0 END)">>
      [] OTHER -> <<>>

\* the token of the character U+0060 (grave accent)
GraveAccent == "U+0060"

\* GetSubstitution of String.prototype.replace for a pattern without capture
\* groups: in the replacement text $$ stands for $, $& for the matched text,
\* $ followed by a grave accent for the text before the match and $ followed
\* by an apostrophe for the text after it.
RECURSIVE GetSubstitution(_, _, _, _)
GetSubstitution(replacement, matched, before, after) ==
    IF replacement = <<>> THEN <<>>
    ELSE IF Head(replacement) = "$" /\ Len(replacement) > 1
            /\ replacement[2] \in {"$", "&", GraveAccent, "'"}
    THEN (CASE replacement[2] = "$" -> <<"$">>
            [] replacement[2] = "&" -> matched
            [] replacement[2] = GraveAccent -> before
            [] replacement[2] = "'" -> after)
         \o GetSubstitution(SubSeq(replacement, 3, Len(replacement)), matched, before, after)
    ELSE <<Head(replacement)>>
         \o GetSubstitution(Tail(replacement), matched, before, after)

\* sqlFunctionTemplate.replace(/\$\$col\$\$/g, quotedColName)
ReplacePlaceholder(template, quotedColName) ==
    LET part[i \in 0..Len(template)] ==
            IF i = 0 THEN <<>>
            ELSE part[i - 1] \o
                 (IF template[i] = COL_PLACEHOLDER
                  THEN GetSubstitution(quotedColName, <<COL_PLACEHOLDER>>,
                                       SubSeq(template, 1, i - 1),
                                       SubSeq(template, i + 1, Len(template)))
                  ELSE <<template[i]>>)
    IN  part[Len(template)]

\* [a-zA-Z0-9_]
AliasSafe ==
    {"a", "b", "c", "d", "e", "f", "g", "h", "i", "j", "k", "l", "m", "n", "o", "p", "q",
     "r", "s", "t", "u", "v", "w", "x", "y", "z", "A", "B", "C", "D", "E", "F", "G", "H",
     "I", "J", "K", "L", "M", "N", "O", "P", "Q", "R", "S", "T", "U", "V", "W", "X", "Y",
     "Z", "_"} \cup Digits

\* name.replace(/[^a-zA-Z0-9_]/g, "_")
CleanForAlias(name) == [i \in 1..Len(name) |-> IF name[i] \in AliasSafe THEN name[i] ELSE "_"]

METHOD_COLUMN_POLICY == <<"Aggregation method (column name)">>

COLUMN_METHOD_POLICY == <<"Column name (aggregation method)">>

\* lines 124-145
SqlFunctionCall(sqlFunctionTemplate, knimeMethod, quotedColName, valueDelimiter) ==
    IF \E i \in 1..Len(sqlFunctionTemplate) : sqlFunctionTemplate[i] = COL_PLACEHOLDER
    THEN ReplacePlaceholder(sqlFunctionTemplate, quotedColName)
    ELSE IF knimeMethod = <<"C", "o", "u", "n", "t">>
    THEN <<"COUNT", "(">> \o quotedColName \o <<")">>
    ELSE IF knimeMethod \in {<<"L", "i", "s", "t">>, <<"C", "o", "n", "c", "a", "t", "e", "n", "a", "t", "e">>}
    THEN sqlFunctionTemplate \o <<"(">> \o quotedColName \o <<", ">>
         \o QuoteLiteral(valueDelimiter) \o <<")">>
    ELSE sqlFunctionTemplate \o <<"(">> \o quotedColName \o <<")">>

\* lines 147-164
AggregationAlias(colName, knimeMethod, columnNamePolicy) ==
    LET cleanColName == CleanForAlias(colName)
        cleanMethod == CleanForAlias(knimeMethod)
    IN  IF columnNamePolicy = METHOD_COLUMN_POLICY
        THEN cleanMethod \o <<"_">> \o cleanColName
        ELSE IF columnNamePolicy = COLUMN_METHOD_POLICY
        THEN cleanColName \o <<"_">> \o cleanMethod
        ELSE cleanColName \o <<"_", "a", "g", "g">>

\* the body of the loop of lines 114-168: <<>> when the method is not mapped
AggregationItem(colName, knimeMethod, columnNamePolicy, valueDelimiter) ==
    LET sqlFunctionTemplate == mapKnimeAggregationToSQL(knimeMethod)
    IN  IF sqlFunctionTemplate = <<>> THEN <<>>
        ELSE << SqlFunctionCall(sqlFunctionTemplate, knimeMethod, QuoteIdent(colName),
                                valueDelimiter)
                \o <<" AS ">>
                \o QuoteIdent(AggregationAlias(colName, knimeMethod, columnNamePolicy)) >>

\* a variant of SelectParts that lists the aggregations first
SelectPartsAggregationsFirst(quotedGroupingColumns, aggregations) ==
    aggregations \o quotedGroupingColumns

\* lines 174-180
SelectParts(quotedGroupingColumns, aggregations) ==
    quotedGroupingColumns \o aggregations

\* a variant of UseDistinct that never takes the DISTINCT form
UseDistinctNever(groupingColumns, aggregations) == FALSE

\* line 206
UseDistinct(groupingColumns, aggregations) ==
    Len(groupingColumns) > 0 /\ Len(aggregations) = 0

MinOf(a, b) == IF a <= b THEN a ELSE b

convertGroupByNodeToSQL(nodeConfig, previousNodeName) ==
    LET factory == getEntryValue(nodeConfig.entry, "factory")
        modelNode == findConfigByKey(nodeConfig.config, "model")
        groupByColumnsNode == findConfigByKey(modelNode.config, "grouByColumns")
        inclListGroupNode == findConfigByKey(groupByColumnsNode.config, "InclList")
        groupingColumns == getArrayValuesFromConfig(inclListGroupNode)
        quotedGroupingColumns ==
            [i \in 1..Len(groupingColumns) |-> QuoteIdent(groupingColumns[i])]
        aggColumnNode == findConfigByKey(modelNode.config, "aggregationColumn")
        aggColNamesNode == findConfigByKey(aggColumnNode.config, "columnNames")
        aggColMethodsNode == findConfigByKey(aggColumnNode.config, "aggregationMethod")
        aggColumnNames == getArrayValuesFromConfig(aggColNamesNode)
        aggMethods == getArrayValuesFromConfig(aggColMethodsNode)
        policyEntry == getEntryValue(modelNode.entry, "columnNamePolicy")
        columnNamePolicy == IF Truthy(policyEntry) THEN ToText(policyEntry)
                            ELSE METHOD_COLUMN_POLICY
        delimiterEntry == getEntryValue(modelNode.entry, "valueDelimiter")
        valueDelimiter == IF Truthy(delimiterEntry) THEN ToText(delimiterEntry)
                          ELSE <<",", " ">>
        numAggs == MinOf(Len(aggColumnNames), Len(aggMethods))
        aggs[i \in 0..numAggs] ==
            IF i = 0 THEN <<>>
            ELSE aggs[i - 1] \o AggregationItem(aggColumnNames[i], aggMethods[i],
                                                columnNamePolicy, valueDelimiter)
        aggregations == aggs[numAggs]
        quotedPreviousNodeName ==
            QuoteIdent(IF previousNodeName.t = "null" THEN <<"input_table">>
                       ELSE previousNodeName.s)
        selectParts == SelectParts(quotedGroupingColumns, aggregations)
        selectClause == <<"SELECT", "\n  ">> \o Join(selectParts, <<",", "\n  ">>)
        fromClause == <<"FROM ">> \o quotedPreviousNodeName
        groupByClause ==
            IF Len(quotedGroupingColumns) > 0
            THEN <<"GROUP BY", "\n  ">> \o Join(quotedGroupingColumns, <<",", "\n  ">>)
            ELSE <<>>
        parts == <<selectClause, fromClause>>
                 \o (IF groupByClause # <<>> THEN <<groupByClause>> ELSE <<>>)
    IN  IF factory # JSStr(GROUPBY_FACTORY)
        THEN Returned(<<"Error:", " Expected GroupBy node factory (">>
                      \o GROUPBY_FACTORY \o <<"), but got ">>
                      \o (IF Truthy(factory) THEN <<"\"">> \o ToText(factory) \o <<"\"">>
                          ELSE <<"N/A">>) \o <<".">>)
        ELSE IF modelNode.nil \/ modelNode.config = <<>> \/ modelNode.entry = <<>>
        THEN Returned(<<"Error:", " Model configuration not found or invalid.">>)
        ELSE IF previousNodeName.t = "bool" THEN Thrown    \* previousNodeName.replace
        ELSE IF selectParts = <<>>
        THEN Returned(<<"Error:", " Cannot generate SELECT clause. No grouping or aggregation columns specified/successful.">>)
        ELSE IF UseDistinct(groupingColumns, aggregations)
        THEN Returned(<<"SELECT DISTINCT", "\n  ">>
                      \o Join(quotedGroupingColumns, <<",", "\n  ">>)
                      \o <<"\n">> \o fromClause \o <<";">>)
        ELSE Returned(Join(parts, <<"\n">>) \o <<";">>)

-----------------------------------------------------------------------------
(* Sorter translator.                                                      *)

SORTER_FACTORY == <<"org.knime.base.node.preproc.sorter.SorterNodeFactory">>

\* !isNaN(parseInt(key)) on the keys of the model: the index keys parse,
\* the names of settings do not
KeyParsesAsInt(key) == IsIndexKey(key)

\* a variant of SortDirection that ignores the criterion's sortingOrder
SortDirectionAlwaysAsc(sortingOrder) == "ASC"

\* line 63
SortDirection(sortingOrder) ==
    IF sortingOrder = JSStr(<<"DESCENDING">>) THEN "DESC" ELSE "ASC"

\* line 64
NullsOrder(missingToEnd) ==
    IF missingToEnd = JSBool(TRUE) THEN "NULLS LAST" ELSE "NULLS FIRST"

\* lines 71-74
AlphanumericComment(stringComparison, columnName) ==
    IF stringComparison = JSStr(<<"ALPHANUMERIC">>)
    THEN <<" -- Note: Alphanumeric string comparison requested for ">> \o columnName
         \o <<". Standard ORDER BY used; verify behavior with DB.">>
    ELSE <<>>

\* the body of the loop of lines 47-77: a skipped criterion, a raised
\* TypeError, or the text pushed to orderByParts
CriterionToOrderByPart(criterionConfig, missingToEnd) ==
    LET columnNode == findConfigByKey(criterionConfig.config, "column")
        columnName == getEntryValue(columnNode.entry, "selected")
        sortingOrder == getEntryValue(criterionConfig.entry, "sortingOrder")
        stringComparison == getEntryValue(criterionConfig.entry, "stringComparison")
    IN  IF ~criterionConfig.attrs \/ ~KeyParsesAsInt(criterionConfig.key) THEN Dropped
        ELSE IF ~Truthy(columnName) \/ ~Truthy(sortingOrder) THEN Dropped
        ELSE IF columnName.t # "str" THEN PredThrown       \* columnName.replace
        ELSE Condition(QuoteIdent(columnName.s)
                       \o <<" ", SortDirection(sortingOrder), " ", NullsOrder(missingToEnd)>>
                       \o AlphanumericComment(stringComparison, columnName.s))

convertSorterNodeToSQL(nodeConfig, previousNodeName) ==
    LET factory == getEntryValue(nodeConfig.entry, "factory")
        modelNode == findConfigByKey(nodeConfig.config, "model")
        sortingCriteriaNode == findConfigByKey(modelNode.config, "sortingCriteria")
        criteriaConfigs == sortingCriteriaNode.config
        missingToEnd == getEntryValue(modelNode.entry, "missingToEnd")
        outcomes == [i \in 1..Len(criteriaConfigs) |->
                        CriterionToOrderByPart(criteriaConfigs[i], missingToEnd)]
        orderByParts == SurvivingConditions(outcomes)
        quotedPreviousNodeName ==
            QuoteIdent(IF previousNodeName.t = "null" THEN <<"input_table">>
                       ELSE previousNodeName.s)
    IN  IF factory # JSStr(SORTER_FACTORY)
        THEN Returned(<<"Error:", " Expected Sorter node factory (">>
                      \o SORTER_FACTORY \o <<"), but got ">>
                      \o (IF Truthy(factory) THEN <<"\"">> \o ToText(factory) \o <<"\"">>
                          ELSE <<"N/A">>) \o <<".">>)
        ELSE IF modelNode.nil \/ modelNode.config = <<>> \/ modelNode.entry = <<>>
        THEN Returned(<<"Error:", " Model configuration not found or invalid.">>)
        ELSE IF sortingCriteriaNode.nil \/ sortingCriteriaNode.config = <<>>
        THEN (IF previousNodeName.t = "bool" THEN Thrown   \* previousNodeName.replace
              ELSE Returned(<<"SELECT * FROM ">> \o quotedPreviousNodeName
                            \o <<";", " -- Warning: No sorting criteria found">>))
        ELSE IF \E i \in 1..Len(outcomes) : outcomes[i].kind = "throw" THEN Thrown
        ELSE IF previousNodeName.t = "bool" THEN Thrown    \* previousNodeName.replace
        ELSE IF orderByParts = <<>>
        THEN Returned(<<"SELECT * FROM ">> \o quotedPreviousNodeName
                      \o <<";", " -- Warning: No valid sorting criteria processed">>)
        ELSE Returned(<<"SELECT *", "\n", "FROM ">> \o quotedPreviousNodeName
                      \o <<"\n", "ORDER BY", "\n  ">>
                      \o Join(orderByParts, <<",", "\n  ">>) \o <<";">>)

-----------------------------------------------------------------------------
(* Concatenate translator.  The predecessor context is [isArray, items];   *)
(* an item is [nodeName, nodesIsArray, nodes], the empty nodeName standing *)
(* for a missing one.                                                      *)

CONCATENATE_FACTORY == <<"org.knime.base.node.preproc.append.row.AppendedRowsNodeFactory">>

\* the characters of the model in ascending UTF-16 code unit order
CodeUnits ==
    <<" ", "\"", "$", "%", "&", "'", "*",
      "0", "1", "2", "3", "4", "5", "6", "7", "8", "9", "?",
      "A", "B", "C", "D", "E", "F", "G", "H", "I", "J", "K", "L", "M", "N", "O", "P", "Q",
      "R", "S", "T", "U", "V", "W", "X", "Y", "Z", "_", GraveAccent,
      "a", "b", "c", "d", "e", "f", "g", "h", "i", "j", "k", "l", "m", "n", "o", "p", "q",
      "r", "s", "t", "u", "v", "w", "x", "y", "z">>

CodeUnit(c) == CHOOSE i \in 1..Len(CodeUnits) : CodeUnits[i] = c

\* a < b as Array.prototype.sort compares strings by default
StringLess(a, b) ==
    \E k \in 1..(Len(b)) :
        /\ \A j \in 1..(k - 1) : j <= Len(a) /\ a[j] = b[j]
        /\ \/ k = Len(a) + 1
           \/ k <= Len(a) /\ CodeUnit(a[k]) < CodeUnit(b[k])

\* a variant of SortStrings that leaves the insertion order
SortStringsKeepsOrder(cols) == cols

\* finalOutputColumns.sort() on an array of distinct strings
SortStrings(cols) ==
    [i \in 1..Len(cols) |->
        cols[CHOOSE k \in 1..Len(cols) :
                 Cardinality({j \in 1..Len(cols) : StringLess(cols[j], cols[k])}) = i - 1]]

\* [...new Set(cols)]: the first occurrence of every element, in order
RECURSIVE SetOrder(_)
SetOrder(cols) ==
    IF cols = <<>> THEN <<>>
    ELSE LET init == SubSeq(cols, 1, Len(cols) - 1)
             last == cols[Len(cols)]
         IN  SetOrder(init)
             \o (IF \E j \in 1..Len(init) : init[j] = last THEN <<>> ELSE <<last>>)

Has(cols, col) == \E j \in 1..Len(cols) : cols[j] = col

\* lines 86-93: the columns of the first predecessor that all others have
IntersectionColumns(items) ==
    SelectSeq(SetOrder(items[1].nodes),
              LAMBDA col : \A i \in 2..Len(items) : Has(items[i].nodes, col))

\* lines 100-104
RECURSIVE UnionColumns(_)
UnionColumns(items) ==
    IF items = <<>> THEN <<>>
    ELSE SetOrder(UnionColumns(SubSeq(items, 1, Len(items) - 1))
                  \o items[Len(items)].nodes)

\* lines 77-108, for a context that passed the checks of lines 28-45
FinalOutputColumns(items, intersectionOfColumns) ==
    SortStrings(IF intersectionOfColumns THEN IntersectionColumns(items)
                ELSE UnionColumns(items))

\* a variant of SelectItem that never substitutes NULL
SelectItemAlwaysQualified(item, col) ==
    QuoteIdent(item.nodeName) \o <<".">> \o QuoteIdent(col)

\* lines 122-133
SelectItem(item, col) ==
    IF Has(item.nodes, col)
    THEN QuoteIdent(item.nodeName) \o <<".">> \o QuoteIdent(col)
    ELSE <<"NULL AS ">> \o QuoteIdent(col)

\* lines 119-137
SelectStatement(item, finalOutputColumns) ==
    <<"SELECT", "\n    ">>
    \o Join([c \in 1..Len(finalOutputColumns) |-> SelectItem(item, finalOutputColumns[c])],
            <<",", "\n    ">>)
    \o <<"\n  ", "FROM ">> \o QuoteIdent(item.nodeName)

WhiteSpace == {" ", "\n", "\n  ", "\n    "}

\* String.prototype.trim on a text whose white space is in tokens of its own
RECURSIVE Trim(_)
Trim(text) ==
    IF text = <<>> THEN <<>>
    ELSE IF Head(text) \in WhiteSpace THEN Trim(Tail(text))
    ELSE IF text[Len(text)] \in WhiteSpace THEN Trim(SubSeq(text, 1, Len(text) - 1))
    ELSE text

\* the decimal digits of a small count
CountText(n) == <<CodeUnits[n + 8]>>

\* line 74
OptionsNote ==
    <<"-- Note: KNIME options 'fail_on_duplicates' and 'append_suffix' for column names are not directly translated. SQL UNION ALL requires columns in SELECT lists to align.",
      "\n">>

\* a variant of ContextAfterConcatenate that leaves the sorted column sets in
\* the caller's items
ContextSortedInPlace(predecessorNodeContext) ==
    [predecessorNodeContext EXCEPT
        !.items = [i \in 1..Len(@) |-> [@[i] EXCEPT !.nodes = SortStrings(SetOrder(@))]]]

\* what the call leaves in the array it was given as predecessor context:
\* the column lists are copied into Sets (line 80) and only the copy of
\* lines 93/104 is sorted
ContextAfterConcatenate(predecessorNodeContext) == predecessorNodeContext

convertConcatenateNodeToSQL(nodeConfig, predecessorNodeContext) ==
    LET factory == getEntryValue(nodeConfig.entry, "factory")
        items == predecessorNodeContext.items
        modelNode == findConfigByKey(nodeConfig.config, "model")
        configSource == IF ~modelNode.nil /\ modelNode.entry # <<>> THEN modelNode.entry
                        ELSE nodeConfig.entry
        intersectionOfColumns ==
            getEntryValue(configSource, "intersection_of_columns") = JSBool(TRUE)
        failOnDuplicates == getEntryValue(configSource, "fail_on_duplicates")
        appendSuffix == getEntryValue(configSource, "append_suffix")
        sqlComment ==
            <<"-- Concatenate Node Conversion (using UNION ALL)", "\n">>
            \o (IF intersectionOfColumns THEN <<"-- Mode: Intersection of columns", "\n">>
                ELSE <<"-- Mode: Union of columns (default)", "\n">>)
            \o (IF failOnDuplicates # JSNull \/ appendSuffix # JSNull
                THEN OptionsNote
                ELSE <<>>)
        finalOutputColumns == FinalOutputColumns(items, intersectionOfColumns)
        unionParts == [i \in 1..Len(items) |-> SelectStatement(items[i], finalOutputColumns)]
        invalid == {i \in 1..Len(items) :
                       items[i].nodeName = <<>> \/ ~items[i].nodesIsArray}
    IN  IF factory # JSStr(CONCATENATE_FACTORY)
        THEN Returned(<<"Error:", " Expected Concatenate node factory (">>
                      \o CONCATENATE_FACTORY \o <<"), but got ">>
                      \o (IF Truthy(factory) THEN <<"\"">> \o ToText(factory) \o <<"\"">>
                          ELSE <<"N/A">>) \o <<".">>)
        ELSE IF ~predecessorNodeContext.isArray \/ Len(items) < 2
        THEN Returned(<<"Error:", " Concatenate node requires at least two predecessors, but found ">>
                      \o CountText(Len(items)) \o <<". Context: ", "<JSON of the context>">>)
        ELSE IF invalid # {}
        THEN Returned(<<"Error:", " Invalid predecessor context at index ">>
                      \o CountText((CHOOSE i \in invalid : \A j \in invalid : i <= j) - 1)
                      \o <<". Expected { nodeName: string, nodes: string[] }, got: ",
                           "<JSON of the item>">>)
        ELSE IF intersectionOfColumns /\ finalOutputColumns = <<>>
        THEN Returned(<<"Error:", " Intersection of columns resulted in an empty column set.">>)
        ELSE IF finalOutputColumns = <<>>
        THEN Returned(<<"Error:", " No columns determined for the output.">>)
        ELSE Returned(Trim(sqlComment \o Join(unionParts, <<"\n", "UNION ALL", "\n">>))
                      \o <<";">>)

-----------------------------------------------------------------------------
(* The viewer: KNIMEViewer.jsx.                                            *)

\* the id of a settings folder without a `#<digits>` suffix (null)
NullId == -1

\* the order of a node that the descriptor does not declare ("N/A")
NA == -1

DigitValue == [d \in Digits |->
    CASE d = "0" -> 0 [] d = "1" -> 1 [] d = "2" -> 2 [] d = "3" -> 3 [] d = "4" -> 4
      [] d = "5" -> 5 [] d = "6" -> 6 [] d = "7" -> 7 [] d = "8" -> 8 [] d = "9" -> 9]

\* parseInt(digits, 10)
RECURSIVE ParseInt(_)
ParseInt(ds) ==
    IF ds = <<>> THEN 0
    ELSE ParseInt(SubSeq(ds, 1, Len(ds) - 1)) * 10 + DigitValue[ds[Len(ds)]]

\* nodeFolder.match(/#(\d+)\)?$/): the digits of the match, <<>> when there is none
FolderMatch(nodeFolder) ==
    LET n == Len(nodeFolder)
        body == IF n > 0 /\ nodeFolder[n] = ")" THEN SubSeq(nodeFolder, 1, n - 1)
                ELSE nodeFolder
        m == Len(body)
        starts == {i \in 1..m : /\ body[i] = "#"
                                /\ i < m
                                /\ \A j \in (i + 1)..m : body[j] \in Digits}
    IN  IF starts = {} THEN <<>>
        ELSE LET i == CHOOSE i \in starts : TRUE IN SubSeq(body, i + 1, m)

FolderNodeId(nodeFolder) ==
    IF FolderMatch(nodeFolder) = <<>> THEN NullId ELSE ParseInt(FolderMatch(nodeFolder))

\* the viewer's getEntryValue: entries.find((e) => e._attributes.key === key)
\* reads `key` of undefined when it meets an element without attributes
\* before it meets a match.
ViewerFindIndex(entries, key) ==
    LET hits == {i \in 1..Len(entries) : entries[i].attrs /\ entries[i].key = key}
    IN  IF hits = {} THEN 0 ELSE CHOOSE i \in hits : \A j \in hits : i <= j

ViewerGetEntryThrows(data, key) ==
    /\ data.defined
    /\ \E i \in 1..Len(data.entry) :
          /\ ~data.entry[i].attrs
          /\ ViewerFindIndex(data.entry, key) \in {0} \cup (i + 1)..Len(data.entry)

ViewerGetEntryValue(data, key) ==
    IF ~data.defined \/ data.entry = <<>> THEN <<>>
    ELSE LET i == ViewerFindIndex(data.entry, key)
         IN  IF i = 0 \/ ~data.entry[i].hasValue THEN <<>> ELSE data.entry[i].value

\* a variant of FirstSourceOf that takes the last matching source
LastSourceOf(currentNodeId, map) ==
    LET srcs == {s \in DOMAIN map : \E k \in 1..Len(map[s]) : map[s][k] = currentNodeId}
    IN  IF srcs = {} THEN <<>> ELSE <<CHOOSE s \in srcs : \A r \in srcs : s >= r>>

\* Object.entries(nextNodeMap): integer-like keys are enumerated in ascending
\* numeric order; the first source whose destination list includes the node.
FirstSourceOf(currentNodeId, map) ==
    LET srcs == {s \in DOMAIN map : \E k \in 1..Len(map[s]) : map[s][k] = currentNodeId}
    IN  IF srcs = {} THEN <<>> ELSE <<CHOOSE s \in srcs : \A r \in srcs : s <= r>>

\* <<>> is null, <<record>> a node record
findPreviousNode(currentNodeId, map, nodes) ==
    LET src == FirstSourceOf(currentNodeId, map)
    IN  IF src = <<>> THEN <<>>
        ELSE LET hits == {i \in 1..Len(nodes) : nodes[i].id = src[1]}
             IN  IF hits = {} THEN <<>>
                 ELSE <<nodes[CHOOSE i \in hits : \A j \in hits : i <= j]>>

CSV_READER_FACTORY ==
    <<"org.knime.base.node.io.filehandling.csv.reader.CSVTableReaderNodeFactory">>

COLUMN_FILTER_FACTORY ==
    <<"org.knime.base.node.preproc.filter.column.DataColumnSpecFilterNodeFactory">>

\* the two translators the viewer imports; their files are not part of src/
convertCSVReaderNodeToSQL(nodeConfig) == <<"<CSVReader SQL>">>

convertColumnFilterNodeToSQL(nodeConfig, previousNodeName) ==
    <<"<ColumnFilter SQL FROM ">> \o previousNodeName \o <<">">>

\* the switch of convertSelectedNodeToSQL: the translator a factory value selects
SelectedTranslator(factory) ==
    IF factory = CSV_READER_FACTORY THEN "CSVReader"
    ELSE IF factory = COLUMN_FILTER_FACTORY THEN "ColumnFilter"
    ELSE "none"

convertSelectedNodeToSQL(nodeConfig, previousNodeName) ==
    LET factory == ViewerGetEntryValue(nodeConfig, "factory")
    IN  IF ViewerGetEntryThrows(nodeConfig, "factory") THEN Thrown
        ELSE IF factory = <<>>
        THEN Returned(<<"Invalid node configuration: missing factory value.">>)
        ELSE IF SelectedTranslator(factory) = "CSVReader"
        THEN Returned(convertCSVReaderNodeToSQL(nodeConfig))
        ELSE IF SelectedTranslator(factory) = "ColumnFilter"
        THEN Returned(convertColumnFilterNodeToSQL(nodeConfig,
                 IF previousNodeName = <<>> THEN <<"input_table">> ELSE previousNodeName))
        ELSE Returned(<<"Conversion for this node type is not supported.">>)

-----------------------------------------------------------------------------
(* handleUpload.  An archive is [paths, docs, nodes, connections]: `paths` *)
(* is Object.keys(zipContent.files), each path the sequence of its         *)
(* "/"-separated parts; docs[i] is the parsed content of paths[i] when it  *)
(* is a settings document; nodes (ids in declared order) and connections   *)
(* are what parseWorkflowKnime returns for the archive's workflow.knime.   *)

LastPart(path) == path[Len(path)]

HasWorkflowFile(f) ==
    \E i \in 1..Len(f.paths) : LastPart(f.paths[i]) = <<"workflow.knime">>

\* allFiles.filter(...): the indices of the settings documents, in archive order
XmlPaths(f) ==
    {i \in 1..Len(f.paths) :
        Len(f.paths[i]) > 1 /\ LastPart(f.paths[i]) = <<"settings.xml">>}

\* nodes.forEach((node, index) => nodeOrderMap[node.id] = index): last index wins
NodeOrderMap(f) ==
    [id \in {f.nodes[k] : k \in 1..Len(f.nodes)} |->
        (CHOOSE k \in 1..Len(f.nodes) :
            /\ f.nodes[k] = id
            /\ \A j \in 1..Len(f.nodes) : f.nodes[j] = id => j <= k) - 1]

RECURSIVE DestsOf(_, _)
DestsOf(conns, src) ==
    IF conns = <<>> THEN <<>>
    ELSE (IF Head(conns).sourceID = src THEN <<Head(conns).destID>> ELSE <<>>)
         \o DestsOf(Tail(conns), src)

\* connections.forEach(...): destinations per source, in declaration order
NextNodeMap(f) ==
    [src \in {f.connections[k].sourceID : k \in 1..Len(f.connections)} |->
        DestsOf(f.connections, src)]

\* the callback of xmlPaths.forEach raises before setNodeData is reached
ParseThrows(f, i) ==
    \E key \in {"name", "factory", "state", "customDescription"} :
        ViewerGetEntryThrows(f.docs[i], key)

\* the record built by the callback of xmlPaths.forEach for paths[i]
NodeRecord(f, i) ==
    LET pathParts == f.paths[i]
        nodeFolder == pathParts[Len(pathParts) - 1]
        nodeId == FolderNodeId(nodeFolder)
        nodeOrderMap == NodeOrderMap(f)
        nextMap == NextNodeMap(f)
    IN  [id |-> nodeId,
         nodeName |-> ViewerGetEntryValue(f.docs[i], "name"),
         nodeType |-> ViewerGetEntryValue(f.docs[i], "factory"),
         nodeStatus |-> ViewerGetEntryValue(f.docs[i], "state"),
         description |-> ViewerGetEntryValue(f.docs[i], "customDescription"),
         config |-> f.docs[i],
         order |-> IF nodeId # NullId /\ nodeId \in DOMAIN nodeOrderMap
                   THEN nodeOrderMap[nodeId] ELSE NA,
         nextNodes |-> IF nodeId # NullId /\ nodeId \in DOMAIN nextMap
                       THEN nextMap[nodeId] ELSE <<>>]

\* The comparator of sortedNodeData.
CompareOrder(a, b) ==
    IF a.order = NA THEN 1 ELSE IF b.order = NA THEN -1 ELSE a.order - b.order

\* [...nodeData].sort(comparator).  The sort is stable; where the comparator
\* is inconsistent (two records with order "N/A" each sort after the other)
\* the order is implementation-defined, so every arrangement of those
\* records is an outcome.
SortedNodeDataOutcomes(nd) ==
    LET n == Len(nd)
        perms == {p \in [1..n -> 1..n] : \A i, j \in 1..n : i # j => p[i] # p[j]}
        ok(p) == \A i, j \in 1..n : i < j =>
                    /\ CompareOrder(nd[p[i]], nd[p[j]]) <= 0
                       \/ (nd[p[i]].order = NA /\ nd[p[j]].order = NA)
                    /\ (nd[p[i]].order # NA /\ CompareOrder(nd[p[i]], nd[p[j]]) = 0)
                          => p[i] < p[j]
    IN  {[i \in 1..n |-> nd[p[i]]] : p \in {q \in perms : ok(q)}}

\* what the modal renders for the selected record
ModalText ==
    IF selectedNode = <<>> THEN Returned(<<"No config found.">>)
    ELSE IF ~selectedNode[1].config.defined THEN Returned(<<"No config found.">>)
    ELSE LET prev == findPreviousNode(selectedNode[1].id, nextNodeMap, nodeData)
         IN  convertSelectedNodeToSQL(selectedNode[1].config,
                 IF prev = <<>> THEN <<"input_table">>
                 ELSE IF prev[1].nodeName = <<>> THEN <<"input_table">>
                 ELSE prev[1].nodeName)

-----------------------------------------------------------------------------
(* Inputs of the viewer.                                                   *)

UNKNOWN_FACTORY == <<"org.knime.base.node.preproc.joiner3.Joiner3NodeFactory">>

\* a proper prefix of a registered identifier
PREFIX_FACTORY == <<"org.knime.base.node.io.filehandling.csv.reader">>

\* settings documents a workflow archive can hold
MaxDocs == 2

\* uploads of the archive the user performs
MaxUploads == 1

UndefinedConfig == [defined |-> FALSE, entry |-> <<>>, config |-> <<>>]

NodeConfig(entries, configs) == [defined |-> TRUE, entry |-> entries, config |-> configs]

SettingsOf(name, factory) ==
    NodeConfig(<<Entry("name", "xstring", name), Entry("factory", "xstring", factory),
                 Entry("state", "xstring", <<"EXECUTED">>)>>, <<>>)

\* a settings document: the folder that holds it and its parsed content
Documents ==
    << [folder |-> <<"A", "(", "#", "1", ")">>,
       config |-> SettingsOf(<<"n", "1">>, CSV_READER_FACTORY)],
      [folder |-> <<"B", "(", "#", "2", ")">>,
       config |-> SettingsOf(<<"n", "2">>, COLUMN_FILTER_FACTORY)],
      [folder |-> <<"C", "#", "1">>,
       config |-> SettingsOf(<<"n", "3">>, ROW_FILTER_FACTORY)],
      [folder |-> <<"D">>,
       config |-> SettingsOf(<<"n", "4">>, UNKNOWN_FACTORY)],
      [folder |-> <<"E", "(", "#", "3", ")">>,
       config |-> NodeConfig(<<Entry("name", "xstring", <<"n", "5">>), BareElement,
                               Entry("factory", "xstring", UNKNOWN_FACTORY)>>, <<>>)],
      [folder |-> <<"F">>, config |-> UndefinedConfig] >>

\* the documents with the given indices, in the order of Documents
RECURSIVE DocumentsAt(_)
DocumentsAt(S) ==
    IF S = {} THEN <<>>
    ELSE LET i == CHOOSE i \in S : \A j \in S : i <= j
         IN  <<Documents[i]>> \o DocumentsAt(S \ {i})

DocumentSeqs ==
    {DocumentsAt(S) : S \in {T \in SUBSET (1..Len(Documents)) : Cardinality(T) <= MaxDocs}}

Connection(src, dst) == [sourceID |-> src, destID |-> dst]

\* what parseWorkflowKnime returns for a workflow.knime
Descriptors ==
    { [nodes |-> <<1, 2, 3>>, connections |-> <<Connection(1, 2), Connection(2, 3)>>],
      [nodes |-> <<3, 2, 1>>, connections |-> <<Connection(3, 2), Connection(1, 2)>>] }

Archive(withWorkflow, d, q) ==
    [paths |-> (IF withWorkflow THEN <<<< <<"wf">>, <<"workflow.knime">> >>>> ELSE <<>>)
               \o << << <<"settings.xml">> >> >>
               \o [i \in 1..Len(q) |-> << <<"wf">>, q[i].folder, <<"settings.xml">> >>],
     docs |-> (IF withWorkflow THEN <<UndefinedConfig>> ELSE <<>>)
              \o <<UndefinedConfig>>
              \o [i \in 1..Len(q) |-> q[i].config],
     nodes |-> d.nodes,
     connections |-> d.connections]

Files ==
    {Archive(TRUE, d, q) : d \in Descriptors, q \in DocumentSeqs}
    \cup {Archive(FALSE, d, q) : d \in Descriptors,
                                 q \in {r \in DocumentSeqs : Len(r) = 1}}

NoCall == [fn |-> "none", nodeConfig |-> UndefinedConfig, previousNodeName |-> JSNull]

-----------------------------------------------------------------------------
(* The viewer as a state machine.                                          *)

Init ==
    /\ file \in Files
    /\ pending = [i \in 1..Len(file.paths) |-> 0]
    /\ nodeData = <<>>
    /\ nextNodeMap = <<>>
    /\ selectedNode = <<>>
    /\ isModalVisible = FALSE
    /\ uploads = 0
    /\ call = NoCall
    /\ result = <<>>

\* handleUpload up to the launch of the asynchronous parses.  The upload area
\* is rendered only while nodeData is empty.
HandleUpload ==
    /\ nodeData = <<>>
    /\ uploads < MaxUploads
    /\ uploads' = uploads + 1
    /\ IF HasWorkflowFile(file)
       THEN /\ nextNodeMap' = NextNodeMap(file)
            /\ pending' = [i \in DOMAIN pending |->
                               IF i \in XmlPaths(file) THEN pending[i] + 1 ELSE pending[i]]
       ELSE UNCHANGED <<nextNodeMap, pending>>
    /\ UNCHANGED <<file, nodeData, selectedNode, isModalVisible, call, result>>

\* one callback of xmlPaths.forEach runs to its end
ParseComplete ==
    \E p \in DOMAIN pending :
        /\ pending[p] > 0
        /\ pending' = [pending EXCEPT ![p] = @ - 1]
        /\ nodeData' = IF ParseThrows(file, p) THEN nodeData
                       ELSE Append(nodeData, NodeRecord(file, p))
        /\ UNCHANGED <<file, nextNodeMap, selectedNode, isModalVisible, uploads,
                       call, result>>

\* the SQL button of a table row
SelectNode ==
    \E i \in 1..Len(nodeData) :
        /\ selectedNode' = <<nodeData[i]>>
        /\ isModalVisible' = TRUE
        /\ UNCHANGED <<file, pending, nodeData, nextNodeMap, uploads, call, result>>

\* the modal's onCancel
CloseModal ==
    /\ isModalVisible
    /\ isModalVisible' = FALSE
    /\ UNCHANGED <<file, pending, nodeData, nextNodeMap, selectedNode, uploads,
                   call, result>>

Next == HandleUpload \/ ParseComplete \/ SelectNode \/ CloseModal

Spec == Init /\ [][Next]_vars

-----------------------------------------------------------------------------
(* Inputs of translator calls.                                             *)

\* predicates a Row Filter configuration can hold
MaxPredicates == 2

\* times one call is repeated with the same arguments
MaxCalls == 2

STRING_CELL == <<"org.knime.core.data.def.StringCell">>

INT_CELL == <<"org.knime.core.data.def.IntCell">>

BOOLEAN_CELL == <<"org.knime.core.data.def.BooleanCell">>

\* <config key="0"> of a predicate's values
ValueConfig(valueEntry, cellClass, isNull, caseMatching) ==
    Config("0", <<valueEntry>>,
           <<Config("typeIdentifier",
                    <<Entry("cell_class", "xstring", cellClass),
                      Entry("is_null", "xboolean", isNull)>>, <<>>),
             Config("stringCaseMatching",
                    <<Entry("caseMatching", "xstring", caseMatching)>>, <<>>)>>)

\* a predicate; column = <<>> leaves the column config out
Predicate(column, operator, valueConfigs) ==
    Config("p", <<Entry("operator", "xstring", operator)>>,
           (IF column = <<>> THEN <<>>
            ELSE <<Config("column", <<Entry("selected", "xstring", column)>>, <<>>)>>)
           \o <<Config("predicateValues", <<>>, <<Config("values", <<>>, valueConfigs)>>)>>)

PredColAEq5 ==
    Predicate(<<"c", "o", "l", "A">>, <<"EQ">>,
              <<ValueConfig(Entry("value", "xstring", <<"5">>), INT_CELL, <<"false">>,
                            <<"CASESENSITIVE">>)>>)

\* IS_MISSING with its column and operator only: <config key="values"/> is empty
PredColBIsMissing == Predicate(<<"c", "o", "l", "B">>, <<"IS_MISSING">>, <<>>)

PredColBIsMissingWithValue ==
    Predicate(<<"c", "o", "l", "B">>, <<"IS_MISSING">>,
              <<ValueConfig(Entry("value", "xstring", <<"x">>), STRING_CELL, <<"false">>,
                            <<"CASESENSITIVE">>)>>)

PredLikeInsensitive ==
    Predicate(<<"n">>, <<"LIKE">>,
              <<ValueConfig(Entry("value", "xstring", <<"a", "*", "%">>), STRING_CELL,
                            <<"false">>, <<"CASEINSENSITIVE">>)>>)

PredStringEq ==
    Predicate(<<"a", "\"", "b">>, <<"EQ">>,
              <<ValueConfig(Entry("value", "xstring", <<"i", "t", "'", "s">>), STRING_CELL,
                            <<"false">>, <<"CASESENSITIVE">>)>>)

PredBooleanEq ==
    Predicate(<<"f">>, <<"EQ">>,
              <<ValueConfig(Entry("value", "xboolean", <<"true">>), BOOLEAN_CELL,
                            <<"false">>, <<"CASESENSITIVE">>)>>)

PredBooleanRegex ==
    Predicate(<<"f">>, <<"REGEX">>,
              <<ValueConfig(Entry("value", "xboolean", <<"true">>), BOOLEAN_CELL,
                            <<"false">>, <<"CASESENSITIVE">>)>>)

PredNoColumn ==
    Predicate(<<>>, <<"GT">>,
              <<ValueConfig(Entry("value", "xstring", <<"7">>), INT_CELL, <<"false">>,
                            <<"CASESENSITIVE">>)>>)

PredNullValue ==
    Predicate(<<"z">>, <<"NEQ">>,
              <<ValueConfig(EntryNoValue("value", "xstring"), INT_CELL, <<"true">>,
                            <<"CASESENSITIVE">>)>>)

PredicateShapes ==
    {PredColAEq5, PredColBIsMissing, PredColBIsMissingWithValue, PredLikeInsensitive,
     PredStringEq, PredBooleanEq, PredBooleanRegex, PredNoColumn, PredNullValue}

PredicateSeqs == UNION {[1..n -> PredicateShapes] : n \in 1..MaxPredicates}

OutputModes == {<<"MATCHING">>, <<"NON_MATCHING">>, <<"INCLUDE">>}

RowFilterConfig(outputMode, matchCriteria, predicates) ==
    NodeConfig(<<Entry("factory", "xstring", ROW_FILTER_FACTORY)>>,
               <<Config("model",
                        <<Entry("outputMode", "xstring", outputMode),
                          Entry("matchCriteria", "xstring", matchCriteria)>>,
                        <<Config("predicates", <<>>, predicates)>>)>>)

RowFilterConfigs ==
    {RowFilterConfig(om, mc, ps) :
        om \in OutputModes, mc \in {<<"AND">>, <<"OR">>}, ps \in PredicateSeqs}
    \cup {UndefinedConfig,
          NodeConfig(<<Entry("factory", "xstring", SORTER_FACTORY)>>, <<>>),
          NodeConfig(<<Entry("factory", "xstring", ROW_FILTER_FACTORY)>>, <<>>),
          RowFilterConfig(<<>>, <<"AND">>, <<PredColAEq5>>)}

RowFilterCalls ==
    {[fn |-> "RowFilter", nodeConfig |-> c, previousNodeName |-> n] :
        c \in RowFilterConfigs, n \in {JSStr(<<"t">>), JSNull}}

SelectedConfigs ==
    {SettingsOf(<<"n">>, f) :
        f \in {CSV_READER_FACTORY, COLUMN_FILTER_FACTORY, ROW_FILTER_FACTORY,
               GROUPBY_FACTORY, SORTER_FACTORY, CONCATENATE_FACTORY,
               UNKNOWN_FACTORY, PREFIX_FACTORY, <<>>}}
    \cup {UndefinedConfig,
          NodeConfig(<<BareElement, Entry("factory", "xstring", UNKNOWN_FACTORY)>>, <<>>),
          NodeConfig(<<Entry("factory", "xstring", UNKNOWN_FACTORY), BareElement>>, <<>>)}

SelectedCalls ==
    {[fn |-> "Selected", nodeConfig |-> c, previousNodeName |-> n] :
        c \in SelectedConfigs, n \in {JSStr(<<"t">>), JSNull}}

-----------------------------------------------------------------------------
(* Inputs of Row Filter calls with one predicate on column c.              *)

\* characters of the value of a LIKE predicate
MaxPatternLen == 2

PatternChars == {"a", "*", "?", "%", "_", "'"}

Patterns == UNION {[1..n -> PatternChars] : n \in 1..MaxPatternLen}

\* the operator strings of the table of mapKnimeOperatorToSQL, and one outside it
KnimeOperators ==
    {<<"EQ">>, <<"NEQ">>, <<"LT">>, <<"LE">>, <<"GT">>, <<"GE">>, <<"LIKE">>, <<"REGEX">>,
     <<"IS_MISSING">>, <<"IS_NOT_MISSING">>, <<"LTE">>}

ValuesFor(operator) ==
    IF operator = <<"LIKE">> THEN Patterns \cup {<<"5">>}
    ELSE {<<"5">>, <<"a", "b">>, <<"i", "t", "'", "s">>}

\* <config key="0">; caseMatching = <<>> leaves the stringCaseMatching config out
SingleValueConfig(value, cellClass, caseMatching) ==
    Config("0", <<Entry("value", "xstring", value)>>,
           <<Config("typeIdentifier",
                    <<Entry("cell_class", "xstring", cellClass),
                      Entry("is_null", "xboolean", <<"false">>)>>, <<>>)>>
           \o (IF caseMatching = <<>> THEN <<>>
               ELSE <<Config("stringCaseMatching",
                             <<Entry("caseMatching", "xstring", caseMatching)>>, <<>>)>>))

SinglePredicateConfig(operator, value, cellClass, caseMatching) ==
    RowFilterConfig(<<"MATCHING">>, <<"AND">>,
                    <<Predicate(<<"c">>, operator,
                                <<SingleValueConfig(value, cellClass, caseMatching)>>)>>)

SinglePredicateCalls ==
    UNION {{[fn |-> "RowFilter",
             nodeConfig |-> SinglePredicateConfig(o, v, c, m),
             previousNodeName |-> JSStr(<<"t">>),
             operator |-> o, value |-> v, cellClass |-> c, caseMatching |-> m] :
               v \in ValuesFor(o),
               c \in {STRING_CELL, INT_CELL},
               m \in {<<"CASESENSITIVE">>, <<"CASEINSENSITIVE">>, <<>>}} :
           o \in KnimeOperators}

-----------------------------------------------------------------------------
(* Inputs of GroupBy, Sorter and Concatenate calls.                        *)

\* grouping columns a GroupBy configuration can hold
MaxGroupingColumns == 2

\* aggregations a GroupBy configuration can hold
MaxAggregations == 2

\* criteria a Sorter configuration can hold
MaxCriteria == 2

\* predecessors a Concatenate call can be given
MaxPredecessors == 2

\* an indexed list: <entry key="array-size"/> and one entry per value
ArrayConfig(key, values) ==
    Config(key,
           <<Entry("array-size", "xint", CountText(Len(values)))>>
           \o [i \in 1..Len(values) |-> Entry(IndexKeys[i], "xstring", values[i])],
           <<>>)

\* policy = <<>> leaves the columnNamePolicy entry out
GroupByConfig(grouping, names, methods, policy) ==
    NodeConfig(<<Entry("factory", "xstring", GROUPBY_FACTORY)>>,
               <<Config("model",
                        <<Entry("valueDelimiter", "xstring", <<"'", ",">>)>>
                        \o (IF policy = <<>> THEN <<>>
                            ELSE <<Entry("columnNamePolicy", "xstring", policy)>>),
                        <<Config("grouByColumns", <<>>, <<ArrayConfig("InclList", grouping)>>),
                          Config("aggregationColumn", <<>>,
                                 <<ArrayConfig("columnNames", names),
                                   ArrayConfig("aggregationMethod", methods)>>)>>)>>)

GroupingColumnNames == {<<"r", "e", "g", "i", "o", "n">>, <<"a", "\"", "b">>}

\* aggregations: a column and a method
Aggregations ==
    {[column |-> <<"s", "a", "l", "e", "s">>, method |-> <<"S", "u", "m">>],
     [column |-> <<"s", "a", "l", "e", "s">>, method |-> <<"M", "e", "d", "i", "a", "n">>],
     [column |-> <<"a", "\"", "b">>, method |-> <<"C", "o", "u", "n", "t">>],
     [column |-> <<"a", "$", "$", "b">>, method |-> <<"U", "n", "i", "q", "u", "e", " ", "c", "o", "u", "n", "t">>],
     [column |-> <<"x", " ", "y">>, method |-> <<"M", "i", "s", "s", "i", "n", "g", " ", "v", "a", "l", "u", "e", " ", "c", "o", "u", "n", "t">>],
     [column |-> <<"s", "a", "l", "e", "s">>, method |-> <<"L", "i", "s", "t">>],
     [column |-> <<"s", "a", "l", "e", "s">>, method |-> <<"M", "o", "d", "e">>]}

GroupingSeqs == UNION {[1..n -> GroupingColumnNames] : n \in 0..MaxGroupingColumns}

AggregationSeqs == UNION {[1..n -> Aggregations] : n \in 0..MaxAggregations}

ColumnNamePolicies ==
    {METHOD_COLUMN_POLICY, COLUMN_METHOD_POLICY, <<"Keep original name(s)">>, <<>>}

ColumnsOf(aggs) == [i \in 1..Len(aggs) |-> aggs[i].column]

MethodsOf(aggs) == [i \in 1..Len(aggs) |-> aggs[i].method]

\* the lists of column names and of methods have the same length, or the
\* list of methods lacks its last element
GroupByCalls ==
    {[fn |-> "GroupBy",
      nodeConfig |-> GroupByConfig(g, ColumnsOf(a), MethodsOf(a), p),
      previousNodeName |-> n, grouping |-> g, aggregations |-> a, policy |-> p] :
        g \in GroupingSeqs, a \in AggregationSeqs, p \in ColumnNamePolicies,
        n \in {JSStr(<<"t">>)}}
    \cup {[fn |-> "GroupBy",
           nodeConfig |-> GroupByConfig(g, ColumnsOf(a),
                                        SubSeq(MethodsOf(a), 1, Len(a) - 1), <<>>),
           previousNodeName |-> JSNull, grouping |-> g,
           aggregations |-> SubSeq(a, 1, Len(a) - 1), policy |-> <<>>] :
             g \in GroupingSeqs, a \in {b \in AggregationSeqs : Len(b) = 1}}
    \cup {[fn |-> "GroupBy", nodeConfig |-> c, previousNodeName |-> JSStr(<<"t">>),
           grouping |-> <<>>, aggregations |-> <<>>, policy |-> <<>>] :
             c \in {UndefinedConfig,
                    NodeConfig(<<Entry("factory", "xstring", SORTER_FACTORY)>>, <<>>),
                    NodeConfig(<<Entry("factory", "xstring", GROUPBY_FACTORY)>>, <<>>)}}

\* a criterion; column = <<>> leaves the column config out
Criterion(key, column, sortingOrder, stringComparison) ==
    Config(key,
           <<Entry("sortingOrder", "xstring", sortingOrder),
             Entry("stringComparison", "xstring", stringComparison)>>,
           IF column = <<>> THEN <<>>
           ELSE <<Config("column", <<Entry("selected", "xstring", column)>>, <<>>)>>)

\* criteria: intKey says whether the criterion is keyed by its index
CriterionShapes ==
    {[intKey |-> TRUE, column |-> <<"a", "g", "e">>, sortingOrder |-> <<"DESCENDING">>,
      stringComparison |-> <<"NATURAL">>],
     [intKey |-> TRUE, column |-> <<"n", "a", "m", "e">>, sortingOrder |-> <<"ASCENDING">>,
      stringComparison |-> <<"ALPHANUMERIC">>],
     [intKey |-> TRUE, column |-> <<"a", "\"", "b">>, sortingOrder |-> <<"descending">>,
      stringComparison |-> <<"NATURAL">>],
     [intKey |-> TRUE, column |-> <<>>, sortingOrder |-> <<"DESCENDING">>,
      stringComparison |-> <<"NATURAL">>],
     [intKey |-> TRUE, column |-> <<"z">>, sortingOrder |-> <<>>,
      stringComparison |-> <<"NATURAL">>],
     [intKey |-> FALSE, column |-> <<"k">>, sortingOrder |-> <<"DESCENDING">>,
      stringComparison |-> <<"NATURAL">>]}

CriteriaSeqs == UNION {[1..n -> CriterionShapes] : n \in 0..MaxCriteria}

\* the missingToEnd entry of the model: true, false, or left out
MissingToEndEntries ==
    {<<Entry("missingToEnd", "xboolean", <<"true">>)>>,
     <<Entry("missingToEnd", "xboolean", <<"false">>)>>,
     <<Entry("sortInMemory", "xboolean", <<"true">>)>>}

SorterConfig(criteria, modelEntries) ==
    NodeConfig(<<Entry("factory", "xstring", SORTER_FACTORY)>>,
               <<Config("model", modelEntries,
                        <<Config("sortingCriteria", <<>>,
                                 [i \in 1..Len(criteria) |->
                                     Criterion(IF criteria[i].intKey THEN IndexKeys[i]
                                               ELSE "extra",
                                               criteria[i].column, criteria[i].sortingOrder,
                                               criteria[i].stringComparison)])>>)>>)

SorterCalls ==
    {[fn |-> "Sorter", nodeConfig |-> SorterConfig(c, m), previousNodeName |-> n,
      criteria |-> c, missingToEnd |-> (m = <<Entry("missingToEnd", "xboolean", <<"true">>)>>)] :
        c \in CriteriaSeqs, m \in MissingToEndEntries, n \in {JSStr(<<"t", "\"", "1">>)}}
    \cup {[fn |-> "Sorter", nodeConfig |-> c, previousNodeName |-> JSNull,
           criteria |-> <<>>, missingToEnd |-> FALSE] :
             c \in {UndefinedConfig,
                    NodeConfig(<<Entry("factory", "xstring", SORTER_FACTORY)>>, <<>>),
                    NodeConfig(<<Entry("factory", "xstring", SORTER_FACTORY)>>,
                               <<Config("model",
                                        <<Entry("missingToEnd", "xboolean", <<"true">>)>>,
                                        <<Config("other", <<>>, <<>>)>>)>>)}}

PredecessorItem(nodeName, nodes) ==
    [nodeName |-> nodeName, nodesIsArray |-> TRUE, nodes |-> nodes]

PredecessorItems ==
    {PredecessorItem(<<"p">>, <<<<"a">>, <<"b">>>>),
     PredecessorItem(<<"q">>, <<<<"b">>, <<"c">>>>),
     PredecessorItem(<<"r">>, <<<<"c">>, <<"b">>, <<"c">>>>),
     PredecessorItem(<<"x", "\"", "y">>, <<<<"a", "b">>, <<"B">>, <<"a", "\"">>>>),
     PredecessorItem(<<"e">>, <<>>)}

ItemSeqs == UNION {[1..n -> PredecessorItems] : n \in 0..MaxPredecessors}

\* a context that is an array of well-formed items, an array with an item
\* without nodeName or without a nodes array, or no array at all
PredecessorContexts ==
    {[isArray |-> TRUE, items |-> s] : s \in ItemSeqs}
    \cup {[isArray |-> TRUE,
           items |-> <<PredecessorItem(<<"p">>, <<<<"a">>>>), PredecessorItem(<<>>, <<<<"a">>>>)>>],
          [isArray |-> TRUE,
           items |-> <<[nodeName |-> <<"p">>, nodesIsArray |-> FALSE, nodes |-> <<>>],
                       PredecessorItem(<<"q">>, <<<<"a">>>>)>>],
          [isArray |-> FALSE, items |-> <<>>]}

\* the settings are entries of the model, or of the node itself
ConcatenateConfig(intersection, inModel, withOptions) ==
    LET settings == <<Entry("intersection_of_columns", "xboolean",
                            IF intersection THEN <<"true">> ELSE <<"false">>)>>
                    \o (IF withOptions
                        THEN <<Entry("fail_on_duplicates", "xboolean", <<"false">>)>>
                        ELSE <<>>)
    IN  NodeConfig(<<Entry("factory", "xstring", CONCATENATE_FACTORY)>>
                   \o (IF inModel THEN <<>> ELSE settings),
                   IF inModel THEN <<Config("model", settings, <<>>)>> ELSE <<>>)

ConcatenateCalls ==
    {[fn |-> "Concatenate", nodeConfig |-> ConcatenateConfig(i, m, o),
      previousNodeName |-> JSNull, predecessorNodeContext |-> c, intersection |-> i] :
        i \in BOOLEAN, m \in BOOLEAN, o \in BOOLEAN, c \in PredecessorContexts}
    \cup {[fn |-> "Concatenate", nodeConfig |-> c, previousNodeName |-> JSNull,
           predecessorNodeContext |-> [isArray |-> FALSE, items |-> <<>>],
           intersection |-> FALSE] :
             c \in {UndefinedConfig,
                    NodeConfig(<<Entry("factory", "xstring", SORTER_FACTORY)>>, <<>>)}}

-----------------------------------------------------------------------------
(* Translator calls as a state machine: a call is made with arguments      *)
(* drawn from the inputs above, and repeated with the same arguments.      *)

InitCalls ==
    /\ file = Archive(FALSE, CHOOSE d \in Descriptors : TRUE, <<>>)
    /\ pending = [i \in 1..Len(file.paths) |-> 0]
    /\ nodeData = <<>>
    /\ nextNodeMap = <<>>
    /\ selectedNode = <<>>
    /\ isModalVisible = FALSE
    /\ uploads = 0
    /\ call \in RowFilterCalls \cup SinglePredicateCalls \cup SelectedCalls \cup GroupByCalls
               \cup SorterCalls \cup ConcatenateCalls
    /\ result = <<>>

CallRowFilter ==
    /\ call.fn = "RowFilter"
    /\ Len(result) < MaxCalls
    /\ result' = Append(result,
                        convertRowFilterNodeToSQL(call.nodeConfig, call.previousNodeName))
    /\ UNCHANGED <<file, pending, nodeData, nextNodeMap, selectedNode, isModalVisible,
                   uploads, call>>

CallSelected ==
    /\ call.fn = "Selected"
    /\ Len(result) < MaxCalls
    /\ result' = Append(result,
                        convertSelectedNodeToSQL(call.nodeConfig,
                                                 ToText(call.previousNodeName)))
    /\ UNCHANGED <<file, pending, nodeData, nextNodeMap, selectedNode, isModalVisible,
                   uploads, call>>

CallGroupBy ==
    /\ call.fn = "GroupBy"
    /\ Len(result) < MaxCalls
    /\ result' = Append(result,
                        convertGroupByNodeToSQL(call.nodeConfig, call.previousNodeName))
    /\ UNCHANGED <<file, pending, nodeData, nextNodeMap, selectedNode, isModalVisible,
                   uploads, call>>

CallSorter ==
    /\ call.fn = "Sorter"
    /\ Len(result) < MaxCalls
    /\ result' = Append(result,
                        convertSorterNodeToSQL(call.nodeConfig, call.previousNodeName))
    /\ UNCHANGED <<file, pending, nodeData, nextNodeMap, selectedNode, isModalVisible,
                   uploads, call>>

\* the context array is shared with the caller: the call leaves in it what
\* ContextAfterConcatenate says
CallConcatenate ==
    /\ call.fn = "Concatenate"
    /\ Len(result) < MaxCalls
    /\ result' = Append(result,
                        convertConcatenateNodeToSQL(call.nodeConfig,
                                                    call.predecessorNodeContext))
    /\ call' = [call EXCEPT !.predecessorNodeContext = ContextAfterConcatenate(@)]
    /\ UNCHANGED <<file, pending, nodeData, nextNodeMap, selectedNode, isModalVisible,
                   uploads>>

NextCalls == CallRowFilter \/ CallSelected \/ CallGroupBy \/ CallSorter \/ CallConcatenate

SpecCalls == InitCalls /\ [][NextCalls]_vars

-----------------------------------------------------------------------------
(* Properties.                                                             *)

IsDiagnostic(text) == text # <<>> /\ text[1] = "Error:"

EndsWithSemicolon(text) == text # <<>> /\ text[Len(text)] = ";"

NotSupportedText == <<"Conversion for this node type is not supported.">>

\* the factory value of the arguments of the call, read with the tolerant accessor
CallFactory == getEntryValue(call.nodeConfig.entry, "factory")

CallModel == findConfigByKey(call.nodeConfig.config, "model")

CallOutputMode == getEntryValue(CallModel.entry, "outputMode")

HasWhere(text) == \E i \in 1..Len(text) : text[i] = " WHERE "

\* the tokens between " WHERE " and the terminating ";"
WhereBody(text) ==
    LET i == CHOOSE i \in 1..Len(text) : text[i] = " WHERE "
    IN  SubSeq(text, i + 1, Len(text) - 1)

\* the same Row Filter configuration in keep mode
KeepVariant ==
    RowFilterConfig(<<"MATCHING">>,
                    ToText(getEntryValue(CallModel.entry, "matchCriteria")),
                    findConfigByKey(CallModel.config, "predicates").config)

\* C1: with a matching factory entry, every returned text that is not an
\* "Error:" diagnostic has ";" as its last character (stated for Row Filter).
C1_SuccessEndsInSemicolon ==
    \A k \in 1..Len(result) :
        (/\ call.fn = "RowFilter"
         /\ CallFactory = JSStr(ROW_FILTER_FACTORY)
         /\ ~result[k].threw
         /\ ~IsDiagnostic(result[k].text))
        => EndsWithSemicolon(result[k].text)

\* C2: the dispatcher invokes a translator exactly when the factory value is
\* that translator's identifier: the result is the CSV Reader's (Column
\* Filter's, Row Filter's) result iff the factory is its identifier, and a
\* GroupBy, Sorter or Concatenate factory is not answered as unsupported.
C2_DispatchExactForSix ==
    \A k \in 1..Len(result) :
        (call.fn = "Selected" /\ ~result[k].threw) =>
            LET factory == ViewerGetEntryValue(call.nodeConfig, "factory")
                prev == IF Truthy(call.previousNodeName) THEN call.previousNodeName.s
                        ELSE <<"input_table">>
            IN  /\ (result[k].text = convertCSVReaderNodeToSQL(call.nodeConfig))
                       <=> (factory = CSV_READER_FACTORY)
                /\ (result[k].text = convertColumnFilterNodeToSQL(call.nodeConfig, prev))
                       <=> (factory = COLUMN_FILTER_FACTORY)
                /\ (result[k] = convertRowFilterNodeToSQL(call.nodeConfig, JSStr(prev)))
                       <=> (factory = ROW_FILTER_FACTORY)
                /\ factory \in {GROUPBY_FACTORY, SORTER_FACTORY, CONCATENATE_FACTORY}
                       => result[k].text # NotSupportedText

\* C3: a config whose factory identifier is not one of the six translatable
\* ones gets exactly the fixed unsupported text as a return value, whatever
\* the shape of its entry list; nothing is raised.
C3_UnknownFactoryGetsFixedText ==
    \A k \in 1..Len(result) :
        (/\ call.fn = "Selected"
         /\ Truthy(CallFactory)
         /\ CallFactory.s \notin {CSV_READER_FACTORY, COLUMN_FILTER_FACTORY,
                                  ROW_FILTER_FACTORY, GROUPBY_FACTORY, SORTER_FACTORY,
                                  CONCATENATE_FACTORY})
        => result[k] = Returned(NotSupportedText)

\* C4: a translator call never raises: it returns SQL or diagnostic text for
\* every settings tree and predecessor argument (stated for Row Filter).
C4_TranslatorNeverThrows ==
    \A k \in 1..Len(result) : call.fn = "RowFilter" => ~result[k].threw

\* an upload of an archive with a workflow.knime whose parses have all completed
FullyProcessed ==
    /\ uploads > 0
    /\ HasWorkflowFile(file)
    /\ \A p \in DOMAIN pending : pending[p] = 0

\* C5: after an upload has been fully processed, every node the descriptor
\* declares and every node with a settings document has a record in nodeData.
C5_EveryNodeHasRecord ==
    FullyProcessed =>
        /\ \A n \in 1..Len(file.nodes) :
              \E i \in 1..Len(nodeData) : nodeData[i].id = file.nodes[n]
        /\ \A p \in XmlPaths(file) :
              \E i \in 1..Len(nodeData) : nodeData[i].config = file.docs[p]

RECURSIVE RecordsOf(_, _)
RecordsOf(f, ps) ==
    IF ps = {} THEN <<>>
    ELSE LET p == CHOOSE p \in ps : \A q \in ps : p <= q
         IN  <<NodeRecord(f, p)>> \o RecordsOf(f, ps \ {p})

\* C6: once all parses of one upload have completed, nodeData and the sorted
\* sequence derived from it are the same for every completion order (the one
\* the parses have when they complete in archive order), one record per
\* settings document; stated for archives none of whose parses raises.
C6_CompletionOrderIndependent ==
    (/\ FullyProcessed
     /\ uploads = 1
     /\ \A p \in XmlPaths(file) : ~ParseThrows(file, p)) =>
        /\ nodeData = RecordsOf(file, XmlPaths(file))
        /\ SortedNodeDataOutcomes(nodeData)
              = SortedNodeDataOutcomes(RecordsOf(file, XmlPaths(file)))

\* C7: no two records of nodeData have the same id.
C7_UniqueIds ==
    \A i, j \in 1..Len(nodeData) : i # j => nodeData[i].id # nodeData[j].id

SourcesOf(id) ==
    {s \in DOMAIN nextNodeMap : \E k \in 1..Len(nextNodeMap[s]) : nextNodeMap[s][k] = id}

\* C8 as stated: findPreviousNode returns the record of the first source whose
\* destination list contains the node, and null exactly when there is no
\* such source.
C8_NullExactlyWhenNoSource ==
    selectedNode # <<>> =>
        LET id == selectedNode[1].id
            r == findPreviousNode(id, nextNodeMap, nodeData)
        IN  /\ (r = <<>>) <=> (SourcesOf(id) = {})
            /\ r # <<>> => /\ r[1].id \in SourcesOf(id)
                           /\ \A s \in SourcesOf(id) : r[1].id <= s

\* C8 amended: findPreviousNode returns the first record of nodes whose id is
\* the first source (in ascending id order, the order Object.entries gives)
\* whose destination list contains the node, and null exactly when there is no
\* such source or nodes holds no record of that source.
C8_FirstSourceRecordOrNull ==
    selectedNode # <<>> =>
        LET id == selectedNode[1].id
            r == findPreviousNode(id, nextNodeMap, nodeData)
            hasRecord(s) == \E i \in 1..Len(nodeData) : nodeData[i].id = s
            first(s) == s \in SourcesOf(id) /\ \A t \in SourcesOf(id) : s <= t
        IN  /\ (r = <<>>) <=> (\A s \in SourcesOf(id) : first(s) => ~hasRecord(s))
            /\ r # <<>> =>
                  \E i \in 1..Len(nodeData) :
                      /\ nodeData[i] = r[1]
                      /\ first(r[1].id)
                      /\ \A j \in 1..(i - 1) : nodeData[j].id # r[1].id

\* a node with two sources is selected and the record of the first is returned
C8_Witness ==
    /\ selectedNode # <<>>
    /\ Cardinality(SourcesOf(selectedNode[1].id)) > 1
    /\ findPreviousNode(selectedNode[1].id, nextNodeMap, nodeData) # <<>>

C9Call ==
    [fn |-> "RowFilter",
     nodeConfig |-> RowFilterConfig(<<"MATCHING">>, <<"AND">>,
                                    <<PredColAEq5, PredColBIsMissing>>),
     previousNodeName |-> JSStr(<<"t">>)]

\* C9: in keep mode the predicates colA EQ 5 and colB IS_MISSING (the latter
\* with its column and operator only) combined by AND give
\* WHERE "colA" = 5 AND "colB" IS NULL, one condition per predicate in order.
C9_OneConditionPerPredicate ==
    \A k \in 1..Len(result) :
        call = C9Call =>
            result[k] = Returned(<<"SELECT * FROM ", "\"", "t", "\"", " WHERE ",
                                   "\"", "c", "o", "l", "A", "\"", " ", "=", " ", "5",
                                   " ", "AND", " ",
                                   "\"", "c", "o", "l", "B", "\"", " ", "IS NULL", ";">>)

\* C10: the combined condition is wrapped as NOT (...) if and only if
\* outputMode is NON_MATCHING: the WHERE clause is then NOT ( + the keep-mode
\* clause of the same predicates + ), and for any other mode it is the
\* keep-mode clause itself, which never starts with NOT (.
C10_NotWrapIffNonMatching ==
    \A k \in 1..Len(result) :
        (call.fn = "RowFilter" /\ ~result[k].threw /\ HasWhere(result[k].text)) =>
            LET keep == convertRowFilterNodeToSQL(KeepVariant, call.previousNodeName)
                body == WhereBody(result[k].text)
            IN  /\ ~keep.threw
                /\ HasWhere(keep.text)
                /\ Head(WhereBody(keep.text)) # "NOT ("
                /\ IF CallOutputMode = JSStr(<<"NON_MATCHING">>)
                   THEN body = <<"NOT (">> \o WhereBody(keep.text) \o <<")">>
                   ELSE body = WhereBody(keep.text)

\* a NON_MATCHING filter with two surviving predicates has been translated
C10_Witness ==
    /\ call.fn = "RowFilter"
    /\ call.nodeConfig = RowFilterConfig(<<"NON_MATCHING">>, <<"OR">>,
                                         <<PredColAEq5, PredStringEq>>)
    /\ Len(result) > 0
    /\ ~result[1].threw
    /\ HasWhere(result[1].text)
    /\ Head(WhereBody(result[1].text)) = "NOT ("

\* a text without its white-space tokens
StripWhiteSpace(text) == SelectSeq(text, LAMBDA tok : tok \notin WhiteSpace)

Contains(text, tok) == \E i \in 1..Len(text) : text[i] = tok

\* the methods of the inputs that the translator has no SQL function for
UnmappedMethods == {<<"M", "e", "d", "i", "a", "n">>, <<"M", "o", "d", "e">>}

\* the aggregations of a call whose method has an SQL function, in configured order
MappedAggregations(aggs) == SelectSeq(aggs, LAMBDA a : a.method \notin UnmappedMethods)

CallPolicy == IF call.policy = <<>> THEN METHOD_COLUMN_POLICY ELSE call.policy

\* the SELECT items of the mapped aggregations of the call, in configured order
CallAggregationItems ==
    LET m == MappedAggregations(call.aggregations)
        item[i \in 0..Len(m)] ==
            IF i = 0 THEN <<>>
            ELSE item[i - 1] \o AggregationItem(m[i].column, m[i].method, CallPolicy,
                                                <<"'", ",">>)
    IN  item[Len(m)]

CallQuotedGrouping == [i \in 1..Len(call.grouping) |-> QuoteIdent(call.grouping[i])]

CallInput ==
    QuoteIdent(IF call.previousNodeName.t = "null" THEN <<"input_table">>
               ELSE call.previousNodeName.s)

\* a GroupBy call on a well-formed GroupBy configuration
IsGroupByCall ==
    /\ call.fn = "GroupBy"
    /\ CallFactory = JSStr(GROUPBY_FACTORY)
    /\ ~CallModel.nil

C11Call ==
    [fn |-> "GroupBy",
     nodeConfig |-> GroupByConfig(<<<<"r", "e", "g", "i", "o", "n">>>>, <<<<"s", "a", "l", "e", "s">>>>, <<<<"S", "u", "m">>>>,
                                  METHOD_COLUMN_POLICY),
     previousNodeName |-> JSStr(<<"t">>),
     grouping |-> <<<<"r", "e", "g", "i", "o", "n">>>>,
     aggregations |-> <<[column |-> <<"s", "a", "l", "e", "s">>, method |-> <<"S", "u", "m">>]>>,
     policy |-> METHOD_COLUMN_POLICY]

\* C11: a GroupBy call with at least one mapped aggregation returns, up to
\* white space, SELECT + the quoted grouping columns in configured order, then
\* the aggregation items in configured order + FROM input, followed by
\* GROUP BY + the same grouping columns in the same order exactly when the
\* grouping list is not empty; grouping region with Sum of sales under the
\* method-then-column policy gives
\* SELECT "region", SUM("sales") AS "Sum_sales" FROM "t" GROUP BY "region";
C11_GroupByShape ==
    \A k \in 1..Len(result) :
        /\ (IsGroupByCall /\ MappedAggregations(call.aggregations) # <<>>) =>
              /\ ~result[k].threw
              /\ StripWhiteSpace(result[k].text)
                   = StripWhiteSpace(
                       <<"SELECT">>
                       \o Join(CallQuotedGrouping \o CallAggregationItems, <<",">>)
                       \o <<"FROM ">> \o CallInput
                       \o (IF call.grouping # <<>>
                           THEN <<"GROUP BY">> \o Join(CallQuotedGrouping, <<",">>)
                           ELSE <<>>)
                       \o <<";">>)
              /\ Contains(result[k].text, "GROUP BY") <=> (call.grouping # <<>>)
        /\ call = C11Call =>
              StripWhiteSpace(result[k].text)
                = <<"SELECT", "\"", "r", "e", "g", "i", "o", "n", "\"", ",",
                    "SUM", "(", "\"", "s", "a", "l", "e", "s", "\"", ")", " AS ",
                    "\"", "S", "u", "m", "_", "s", "a", "l", "e", "s", "\"",
                    "FROM ", "\"", "t", "\"",
                    "GROUP BY", "\"", "r", "e", "g", "i", "o", "n", "\"", ";">>

\* two grouping columns and two mapped aggregations have been translated
C11_Witness ==
    /\ IsGroupByCall
    /\ Len(call.grouping) = 2
    /\ Len(MappedAggregations(call.aggregations)) = 2
    /\ Len(result) > 0
    /\ Contains(result[1].text, "GROUP BY")

\* C12: a GroupBy call with a non-empty grouping list and no mapped
\* aggregation (none configured, or every method unmapped) returns, up to
\* white space, SELECT DISTINCT + the quoted grouping columns + FROM input;
\* with no GROUP BY clause; grouping region gives
\* SELECT DISTINCT "region" FROM "t";
C12_DistinctWithoutAggregations ==
    \A k \in 1..Len(result) :
        (/\ IsGroupByCall
         /\ call.grouping # <<>>
         /\ MappedAggregations(call.aggregations) = <<>>) =>
            /\ ~result[k].threw
            /\ StripWhiteSpace(result[k].text)
                 = <<"SELECT DISTINCT">> \o Join(CallQuotedGrouping, <<",">>)
                   \o <<"FROM ">> \o CallInput \o <<";">>
            /\ ~Contains(result[k].text, "GROUP BY")
            /\ (call.grouping = <<<<"r", "e", "g", "i", "o", "n">>>> /\ call.previousNodeName = JSStr(<<"t">>)) =>
                  StripWhiteSpace(result[k].text)
                    = <<"SELECT DISTINCT", "\"", "r", "e", "g", "i", "o", "n", "\"",
                        "FROM ", "\"", "t", "\"", ";">>

\* grouping columns with two configured aggregations, both unmapped, have been
\* translated to the DISTINCT form
C12_Witness ==
    /\ IsGroupByCall
    /\ call.grouping # <<>>
    /\ Len(call.aggregations) = 2
    /\ MappedAggregations(call.aggregations) = <<>>
    /\ Len(result) > 0
    /\ Contains(result[1].text, "SELECT DISTINCT")

\* the criteria of a Sorter call that have an index key, a column and a sorting order
ValidCriteria(criteria) ==
    SelectSeq(criteria, LAMBDA c : c.intKey /\ c.column # <<>> /\ c.sortingOrder # <<>>)

\* the tokens after ORDER BY and before the terminating ";"
OrderByBody(text) ==
    LET i == CHOOSE i \in 1..Len(text) : text[i] = "ORDER BY"
    IN  SubSeq(text, i + 2, Len(text) - 1)

\* C13: the ORDER BY clause of a Sorter output is the list, in criteria order,
\* of one term "<column>" ASC|DESC NULLS FIRST|LAST per valid criterion (each
\* followed by its advisory comment, if any), with DESC exactly when the
\* criterion's sortingOrder is DESCENDING and, on every term, NULLS LAST
\* exactly when the global missingToEnd flag is true.
C13_OrderByTerms ==
    \A k \in 1..Len(result) :
        (/\ call.fn = "Sorter"
         /\ ValidCriteria(call.criteria) # <<>>) =>
            LET v == ValidCriteria(call.criteria)
                term(c) == QuoteIdent(c.column)
                           \o <<" ",
                                IF c.sortingOrder = <<"DESCENDING">> THEN "DESC" ELSE "ASC",
                                " ",
                                IF call.missingToEnd THEN "NULLS LAST" ELSE "NULLS FIRST">>
                           \o AlphanumericComment(JSStr(c.stringComparison), c.column)
            IN  /\ ~result[k].threw
                /\ Contains(result[k].text, "ORDER BY")
                /\ OrderByBody(result[k].text)
                     = Join([i \in 1..Len(v) |-> term(v[i])], <<",", "\n  ">>)

\* a descending and an ascending criterion have been translated with
\* missingToEnd true
C13_Witness ==
    /\ call.fn = "Sorter"
    /\ call.missingToEnd
    /\ Len(ValidCriteria(call.criteria)) = 2
    /\ call.criteria[1].sortingOrder = <<"DESCENDING">>
    /\ call.criteria[2].sortingOrder = <<"ASCENDING">>
    /\ Len(result) > 0
    /\ Contains(result[1].text, "DESC")
    /\ Contains(result[1].text, "ASC")
    /\ Contains(result[1].text, "NULLS LAST")
    /\ ~Contains(result[1].text, "NULLS FIRST")

\* a Concatenate call on a well-formed configuration and context
IsConcatenateCall ==
    /\ call.fn = "Concatenate"
    /\ CallFactory = JSStr(CONCATENATE_FACTORY)
    /\ call.predecessorNodeContext.isArray
    /\ Len(call.predecessorNodeContext.items) >= 2
    /\ \A i \in 1..Len(call.predecessorNodeContext.items) :
          /\ call.predecessorNodeContext.items[i].nodeName # <<>>
          /\ call.predecessorNodeContext.items[i].nodesIsArray

CallItems == call.predecessorNodeContext.items

ColumnSet(item) == {item.nodes[j] : j \in 1..Len(item.nodes)}

\* the union, or the intersection, of the column sets of the predecessors
CombinedColumnSet(items, intersection) ==
    IF intersection
    THEN {c \in ColumnSet(items[1]) : \A i \in 1..Len(items) : c \in ColumnSet(items[i])}
    ELSE UNION {ColumnSet(items[i]) : i \in 1..Len(items)}

Reverse(s) == [i \in 1..Len(s) |-> s[Len(s) + 1 - i]]

\* the final output columns a successful output lists: the column of every
\* item of its first SELECT list
ColumnsInFirstSelect(text, items, cols) ==
    \E i \in 1..Len(text) :
        SubSeq(text, i, i + Len(SelectStatement(items[1], cols)) - 1)
            = SelectStatement(items[1], cols)

\* C14: the final output column list of Concatenate holds exactly the union
\* (union mode) or the intersection (intersection mode) of the predecessors'
\* column sets, without duplicates and in ascending order; it is the same for
\* every order of the predecessors and of the columns within a predecessor;
\* {a,b} and {b,c} in union mode give [a,b,c]; the call returns a diagnostic
\* when the intersection is empty and SQL over that column list otherwise.
C14_FinalColumnsAreSortedSet ==
    \A k \in 1..Len(result) :
        IsConcatenateCall =>
            LET cols == FinalOutputColumns(CallItems, call.intersection)
                n == Len(CallItems)
            IN  /\ {cols[i] : i \in 1..Len(cols)}
                     = CombinedColumnSet(CallItems, call.intersection)
                /\ \A i, j \in 1..Len(cols) : i < j => StringLess(cols[i], cols[j])
                /\ \A p \in Permutations(1..n) :
                      FinalOutputColumns([i \in 1..n |-> CallItems[p[i]]], call.intersection)
                        = cols
                /\ FinalOutputColumns(
                       [i \in 1..n |-> [CallItems[i] EXCEPT !.nodes = Reverse(@)]],
                       call.intersection) = cols
                /\ (/\ ~call.intersection
                    /\ {ColumnSet(CallItems[i]) : i \in 1..n}
                         = {{<<"a">>, <<"b">>}, {<<"b">>, <<"c">>}})
                      => cols = <<<<"a">>, <<"b">>, <<"c">>>>
                /\ (call.intersection /\ CombinedColumnSet(CallItems, TRUE) = {})
                      => ~result[k].threw /\ IsDiagnostic(result[k].text)
                /\ CombinedColumnSet(CallItems, call.intersection) # {}
                      => /\ ~result[k].threw
                         /\ ~IsDiagnostic(result[k].text)
                         /\ ColumnsInFirstSelect(result[k].text, CallItems, cols)

\* {b,c} and {a,b}, given in that order, have been concatenated in union mode
C14_Witness ==
    /\ IsConcatenateCall
    /\ ~call.intersection
    /\ Len(CallItems) = 2
    /\ CallItems[1].nodes = <<<<"b">>, <<"c">>>>
    /\ CallItems[2].nodes = <<<<"a">>, <<"b">>>>
    /\ Len(result) > 0
    /\ ~IsDiagnostic(result[1].text)

ContainsSeq(text, sub) ==
    \E i \in 1..(Len(text) - Len(sub) + 1) : SubSeq(text, i, i + Len(sub) - 1) = sub

\* the name a quoted identifier stands for: the delimiters removed and every
\* doubled quote halved
RECURSIVE Undouble(_)
Undouble(s) ==
    IF s = <<>> THEN <<>>
    ELSE IF Len(s) > 1 /\ s[1] = "\"" /\ s[2] = "\"" THEN <<"\"">> \o Undouble(SubSeq(s, 3, Len(s)))
    ELSE <<Head(s)>> \o Undouble(Tail(s))

Unquote(q) == Undouble(SubSeq(q, 2, Len(q) - 1))

\* the identifiers the arguments of the call name and a successful output uses
CallIdentifiers ==
    IF call.fn = "GroupBy"
    THEN {call.grouping[i] : i \in 1..Len(call.grouping)}
         \cup {MappedAggregations(call.aggregations)[i].column :
                  i \in 1..Len(MappedAggregations(call.aggregations))}
         \cup {Unquote(CallInput)}
    ELSE IF call.fn = "Sorter"
    THEN {ValidCriteria(call.criteria)[i].column : i \in 1..Len(ValidCriteria(call.criteria))}
         \cup {Unquote(CallInput)}
    ELSE IF call.fn = "Concatenate"
    THEN {CallItems[i].nodeName : i \in 1..Len(CallItems)}
         \cup CombinedColumnSet(CallItems, call.intersection)
    ELSE {}

\* C16: every identifier of the arguments that a successful output uses
\* (column names, input table names) is in the output between double quotes
\* with every embedded double quote doubled, and the name is recovered from
\* that quoted form.
C16_IdentifiersQuoted ==
    \A k \in 1..Len(result) :
        (/\ call.fn \in {"GroupBy", "Sorter", "Concatenate"}
         /\ call.fn = "Concatenate" => IsConcatenateCall
         /\ ~result[k].threw
         /\ ~IsDiagnostic(result[k].text)) =>
            \A name \in CallIdentifiers :
                /\ ContainsSeq(result[k].text, QuoteIdent(name))
                /\ Unquote(QuoteIdent(name)) = name

\* a Row Filter call with the single predicate c <operator> <value>
IsSinglePredicateCall == call.fn = "RowFilter" /\ "operator" \in DOMAIN call

\* the value with % and _ escaped by a backslash, * turned into % and ? into _,
\* character by character
LikePattern(v) ==
    LET tr(c) == CASE c = "%" -> <<"\\", "%">>
                   [] c = "_" -> <<"\\", "_">>
                   [] c = "*" -> <<"%">>
                   [] c = "?" -> <<"_">>
                   [] OTHER -> <<c>>
        acc[i \in 0..Len(v)] == IF i = 0 THEN <<>> ELSE acc[i - 1] \o tr(v[i])
    IN  acc[Len(v)]

EscapeClause == " ESCAPE '\\'"

\* C17: the condition of a LIKE predicate with value v holds, as a quoted
\* literal, v with every % and _ escaped by a backslash and then every *
\* replaced by % and every ? by _, and it ends with the ESCAPE clause
\* exactly when v contains a % or a _.
C17_LikePatternAndEscape ==
    \A k \in 1..Len(result) :
        (IsSinglePredicateCall /\ call.operator = <<"LIKE">>) =>
            /\ ~result[k].threw
            /\ HasWhere(result[k].text)
            /\ LET body == WhereBody(result[k].text)
                   rest == SubSeq(body, 1, Len(body) - 1)
               IN  IF Contains(call.value, "%") \/ Contains(call.value, "_")
                   THEN /\ body[Len(body)] = EscapeClause
                        /\ ~Contains(rest, EscapeClause)
                        /\ ContainsSeq(rest, <<" ", "LIKE", " ">>)
                        /\ \/ SubSeq(rest, Len(rest) - Len(QuoteLiteral(LikePattern(call.value))) + 1,
                                     Len(rest)) = QuoteLiteral(LikePattern(call.value))
                           \/ SubSeq(rest, Len(rest) - Len(QuoteLiteral(LikePattern(call.value))),
                                     Len(rest)) = QuoteLiteral(LikePattern(call.value)) \o <<")">>
                   ELSE /\ ~Contains(body, EscapeClause)
                        /\ ContainsSeq(body, <<" ", "LIKE", " ">>)
                        /\ \/ SubSeq(body, Len(body) - Len(QuoteLiteral(LikePattern(call.value))) + 1,
                                     Len(body)) = QuoteLiteral(LikePattern(call.value))
                           \/ SubSeq(body, Len(body) - Len(QuoteLiteral(LikePattern(call.value))),
                                     Len(body)) = QuoteLiteral(LikePattern(call.value)) \o <<")">>

\* a LIKE predicate whose value holds a wild card and a literal % has been
\* translated
C17_Witness ==
    /\ IsSinglePredicateCall
    /\ call.operator = <<"LIKE">>
    /\ call.value = <<"*", "%">>
    /\ Len(result) > 0
    /\ HasWhere(result[1].text)
    /\ Contains(WhereBody(result[1].text), EscapeClause)

\* the operator strings of the inputs that map to =, !=, LIKE or REGEXP
FoldableOperators == {<<"EQ">>, <<"NEQ">>, <<"LIKE">>, <<"REGEX">>, <<"LTE">>}

\* body is LOWER("c") op LOWER('...'), possibly followed by the ESCAPE clause
BothOperandsLowered(body) ==
    LET core == IF body[Len(body)] = EscapeClause THEN SubSeq(body, 1, Len(body) - 1)
                ELSE body
    IN  /\ Len(core) >= 12
        /\ SubSeq(core, 1, 5) = <<"LOWER(">> \o QuoteIdent(<<"c">>) \o <<")">>
        /\ SubSeq(core, 8, 10) = <<" ", "LOWER(", "'">>
        /\ SubSeq(core, Len(core) - 1, Len(core)) = <<"'", ")">>
        /\ Cardinality({i \in 1..Len(core) : core[i] = "LOWER("}) = 2

NoOperandLowered(body) == ~Contains(body, "LOWER(")

\* C18 as stated: a case-insensitive predicate whose operator maps to =, !=,
\* LIKE or REGEXP has both operands wrapped in LOWER, whatever the declared
\* cell class of the literal; a case-sensitive predicate or one with another
\* operator has neither operand wrapped.
C18_LowerWhateverCellClass ==
    \A k \in 1..Len(result) :
        (IsSinglePredicateCall /\ ~result[k].threw /\ HasWhere(result[k].text)) =>
            IF /\ call.caseMatching = <<"CASEINSENSITIVE">>
               /\ call.operator \in FoldableOperators
            THEN BothOperandsLowered(WhereBody(result[k].text))
            ELSE call.caseMatching = <<"CASESENSITIVE">>
                 \/ call.operator \notin FoldableOperators
                    => NoOperandLowered(WhereBody(result[k].text))

\* C18 amended: both operands are wrapped in LOWER exactly when the
\* caseMatching entry is not CASESENSITIVE (CASEINSENSITIVE or absent), the
\* operator maps to =, !=, LIKE or REGEXP and the literal needs quotes (its
\* cell class contains StringCell or its value does not parse as a number);
\* in every other case neither operand is wrapped.
C18_LowerOnlyForQuotedLiterals ==
    \A k \in 1..Len(result) :
        IsSinglePredicateCall =>
            /\ ~result[k].threw
            /\ HasWhere(result[k].text)
            /\ IF /\ call.caseMatching # <<"CASESENSITIVE">>
                  /\ call.operator \in FoldableOperators
                  /\ call.cellClass = STRING_CELL \/ ~IsNumericString(call.value)
               THEN BothOperandsLowered(WhereBody(result[k].text))
               ELSE NoOperandLowered(WhereBody(result[k].text))

\* a case-insensitive EQ predicate on the IntCell literal 5 has been translated
\* without LOWER
C18_Witness ==
    /\ IsSinglePredicateCall
    /\ call.caseMatching = <<"CASEINSENSITIVE">>
    /\ call.operator = <<"EQ">>
    /\ call.cellClass = INT_CELL
    /\ call.value = <<"5">>
    /\ Len(result) > 0
    /\ WhereBody(result[1].text) = QuoteIdent(<<"c">>) \o <<" ", "=", " ", "5">>

\* the table of operators the claim states
OperatorTable ==
    [o \in KnimeOperators \ {<<"LTE">>} |->
        CASE o = <<"EQ">> -> "="
          [] o = <<"NEQ">> -> "!="
          [] o = <<"LT">> -> "<"
          [] o = <<"LE">> -> "<="
          [] o = <<"GT">> -> ">"
          [] o = <<"GE">> -> ">="
          [] o = <<"LIKE">> -> "LIKE"
          [] o = <<"REGEX">> -> "REGEXP"
          [] o = <<"IS_MISSING">> -> "IS NULL"
          [] o = <<"IS_NOT_MISSING">> -> "IS NOT NULL"]

SqlOperators == {OperatorTable[o] : o \in DOMAIN OperatorTable}

\* the SQL operators that occur in the condition of a returned text
EmittedOperators(r) ==
    IF r.threw \/ ~HasWhere(r.text) THEN {}
    ELSE {WhereBody(r.text)[i] : i \in 1..Len(WhereBody(r.text))} \cap SqlOperators

\* C19: the condition of a predicate holds the SQL operator the fixed table
\* gives for its operator string, and the same predicate with any other
\* operator string holds a different SQL operator.
C19_OperatorMappingOneToOne ==
    \A k \in 1..Len(result) :
        IsSinglePredicateCall =>
            /\ call.operator \in DOMAIN OperatorTable
                  => EmittedOperators(result[k]) = {OperatorTable[call.operator]}
            /\ \A o \in KnimeOperators \ {call.operator} :
                  EmittedOperators(convertRowFilterNodeToSQL(
                      SinglePredicateConfig(o, call.value, call.cellClass, call.caseMatching),
                      call.previousNodeName))
                    # EmittedOperators(result[k])

\* the text from its first SELECT on
FromFirstSelect(text) ==
    LET i == CHOOSE i \in 1..Len(text) :
                 text[i] = "SELECT" /\ \A j \in 1..(i - 1) : text[j] # "SELECT"
    IN  SubSeq(text, i, Len(text))

\* the SELECT of one predecessor over the final output columns: the column
\* qualified by the predecessor's alias when the predecessor has it, NULL AS
\* the column when it does not
ExpectedSelect(item, cols) ==
    <<"SELECT", "\n    ">>
    \o Join([c \in 1..Len(cols) |->
                IF cols[c] \in ColumnSet(item)
                THEN QuoteIdent(item.nodeName) \o <<".">> \o QuoteIdent(cols[c])
                ELSE <<"NULL AS ">> \o QuoteIdent(cols[c])],
            <<",", "\n    ">>)
    \o <<"\n  ", "FROM ">> \o QuoteIdent(item.nodeName)

\* C20: a successful Concatenate output is, after its header comments, one
\* SELECT per predecessor in context order, joined by UNION ALL and ended by
\* ";"; every SELECT list has one item per final output column in the order of
\* the final column list: the alias-qualified column when the predecessor has
\* the column and NULL AS "<col>" when it does not.
C20_OneSelectPerPredecessor ==
    \A k \in 1..Len(result) :
        (IsConcatenateCall /\ ~result[k].threw /\ ~IsDiagnostic(result[k].text)) =>
            LET cols == FinalOutputColumns(CallItems, call.intersection)
                text == result[k].text
            IN  /\ Contains(text, "SELECT")
                /\ Cardinality({i \in 1..Len(text) : text[i] = "SELECT"}) = Len(CallItems)
                /\ Cardinality({i \in 1..Len(text) : text[i] = "UNION ALL"})
                     = Len(CallItems) - 1
                /\ FromFirstSelect(text)
                     = Join([i \in 1..Len(CallItems) |-> ExpectedSelect(CallItems[i], cols)],
                            <<"\n", "UNION ALL", "\n">>)
                       \o <<";">>

\* {a,b} and {b,c} have been concatenated in union mode: the first SELECT has
\* NULL AS "c", the second NULL AS "a"
C20_Witness ==
    /\ IsConcatenateCall
    /\ ~call.intersection
    /\ Len(CallItems) = 2
    /\ CallItems[1].nodes = <<<<"a">>, <<"b">>>>
    /\ CallItems[2].nodes = <<<<"b">>, <<"c">>>>
    /\ Len(result) > 0
    /\ ContainsSeq(result[1].text, <<"NULL AS ">> \o QuoteIdent(<<"c">>))
    /\ ContainsSeq(result[1].text, <<"NULL AS ">> \o QuoteIdent(<<"a">>))
    /\ Contains(result[1].text, "UNION ALL")

\* the token that opens the advisory comment of an ORDER BY term
CommentStart == AlphanumericComment(JSStr(<<"ALPHANUMERIC">>), <<>>)[1]

\* the tokens that end a line
LineBreaks == {"\n", "\n  ", "\n    "}

\* token i of the text lies after a "--" comment opened on the same line
InComment(text, i) ==
    \E j \in 1..(i - 1) :
        /\ text[j] = CommentStart
        /\ \A m \in j..(i - 1) : text[m] \notin LineBreaks

\* C21: in a Sorter output with at least one valid criterion, whatever the
\* string-comparison modes of the criteria, no comma separating two ORDER BY
\* terms and not the terminating ";" lies after a "--" advisory comment on
\* its line, so every term and the terminator stay effective SQL.
C21_SeparatorsOutsideComments ==
    \A k \in 1..Len(result) :
        (/\ call.fn = "Sorter"
         /\ ValidCriteria(call.criteria) # <<>>
         /\ ~result[k].threw) =>
            \A i \in 1..Len(result[k].text) :
                result[k].text[i] \in {",", ";"} => ~InComment(result[k].text, i)

====
